---- MODULE Spec2Model ----
(***************************************************************************)
(* The generic dynamic-resource access layer of openchoreo-api:            *)
(*   services.ResourceService  (apply / get / delete / list by kind)       *)
(*   services.SchemaService    (list and get CustomResourceDefinitions)    *)
(* over a cluster resource store reached through a controller-runtime      *)
(* client.  Callers are the MCP handlers, which forward their arguments.   *)
(*                                                                         *)
(* Strings that the code only compares for equality are TLA+ strings.  An  *)
(* apiVersion is parsed by the code, so it is a sequence of tokens (name   *)
(* segments and "/" separators) whose concatenation is the Go string.  A   *)
(* kind is compared byte-wise by the sort in ListCRDs, so the catalog      *)
(* carries kinds with their bytes (KindBytes).                             *)
(***************************************************************************)
EXTENDS Integers, Sequences, FiniteSets, TLC

VARIABLES
    store,      \* the objects the cluster holds: a set of object records
    catalog,    \* the CustomResourceDefinitions the cluster holds
    pc,         \* pc[p]: where caller p is: "idle", or inside applyToKubernetes
    cur,        \* cur[p]: the locals of p's ApplyResourceFromJSON in flight
    req,        \* req[p]: the arguments of p's current or last call
    res,        \* res[p]: what p's last completed call returned
    calls,      \* calls[p]: the store calls p's current or last call issued
    sh          \* the run of an install/restore shell script: its options,
                \* its position in main and the commands it has run

vars == <<store, catalog, pc, cur, req, res, calls, sh>>

\* What the API server's services own; a script run leaves it alone.
apiVars == <<store, catalog, pc, cur, req, res, calls>>

\* ------------------------------------------------------------------ bounds

\* Payload values an applied document's spec can take: 1..MaxSpec.
MaxSpec == 2

\* ------------------------------------------------------- program constants

openchoreoGroup == "openchoreo.dev"
defaultVersion == "v1alpha1"
defaultNamespace == "default"

clusterScopedKinds ==
    { "Organization", "DataPlane", "BuildPlane", "ComponentTypeDefinition",
      "Addon", "ServiceClass", "WebApplicationClass", "ScheduledTaskClass",
      "APIClass", "ConfigurationGroup", "ClusterWorkflowTemplate",
      "CustomResourceDefinition" }

\* ------------------------------------------------------------ JSON values

\* A field of the decoded JSON document, as the type assertion .(string)
\* sees it: absent, present with another type, or a string.
Missing == [t |-> "missing"]
NonString == [t |-> "other"]
Str(s) == [t |-> "string", s |-> s]
IsString(v) == v.t = "string"

\* A Go pointer or map: nil, or set and pointing at v.
Nil == [ptr |-> "nil"]
Ptr(v) == [ptr |-> "set", v |-> v]

\* ----------------------------------------------------------------- errors

\* An error value: the text of its format string, the values formatted into
\* it, and the error it wraps ("" for none).
NoErr == [msg |-> "", args |-> <<>>, cause |-> ""]
\* fmt.Errorf(msg) and fmt.Errorf(msg + ": %w", cause)
Errorf(msg) == [msg |-> msg, args |-> <<>>, cause |-> ""]
Wrap(msg, cause) == [msg |-> msg, args |-> <<>>, cause |-> cause]
\* fmt.Errorf with %s verbs: fmt.Errorf("failed to get CRD %s: %w", crdName, err)
ErrorfArgs(msg, args) == [msg |-> msg, args |-> args, cause |-> ""]
WrapArgs(msg, args, cause) == [msg |-> msg, args |-> args, cause |-> cause]

\* ------------------------------------------------- schema.ParseGroupVersion

SlashCount(gv) == Cardinality({i \in 1..Len(gv) : gv[i] = "/"})

RECURSIVE Join(_)
Join(s) == IF Len(s) = 0 THEN "" ELSE Head(s) \o Join(Tail(s))

ParseGroupVersion(gv) ==
    IF Len(gv) = 0 \/ gv = <<"/">>
    THEN [Group |-> "", Version |-> "", bad |-> FALSE]
    ELSE CASE SlashCount(gv) = 0 ->
                [Group |-> "", Version |-> Join(gv), bad |-> FALSE]
           [] SlashCount(gv) = 1 ->
                LET i == CHOOSE k \in 1..Len(gv) : gv[k] = "/"
                IN  [Group |-> Join(SubSeq(gv, 1, i - 1)),
                     Version |-> Join(SubSeq(gv, i + 1, Len(gv))),
                     bad |-> FALSE]
           [] OTHER ->
                [Group |-> "", Version |-> "", bad |-> TRUE]

\* ------------------------------------------------------- validateResource

\* The (kind, apiVersion, name, err) that validateResource returns.
Invalid(msg) == [kind |-> "", apiVersion |-> <<>>, name |-> "", err |-> Errorf(msg)]
InvalidErr(err) == [kind |-> "", apiVersion |-> <<>>, name |-> "", err |-> err]

validateResource_SlashOnly(resourceObj) ==
    IF ~IsString(resourceObj.kind) \/ resourceObj.kind.s = ""
    THEN Invalid("missing or invalid 'kind' field")
    ELSE IF ~IsString(resourceObj.apiVersion) \/ resourceObj.apiVersion.s = <<>>
    THEN Invalid("missing or invalid 'apiVersion' field")
    ELSE IF ParseGroupVersion(resourceObj.apiVersion.s).bad
    THEN InvalidErr(WrapArgs("invalid apiVersion format '%s'",
                             <<Join(resourceObj.apiVersion.s)>>, "parse"))
    ELSE IF /\ ParseGroupVersion(resourceObj.apiVersion.s).Group # ""
            /\ ParseGroupVersion(resourceObj.apiVersion.s).Group # openchoreoGroup
    THEN InvalidErr(ErrorfArgs(
            "only resources with 'openchoreo.dev' group are supported, got '%s'",
            <<ParseGroupVersion(resourceObj.apiVersion.s).Group>>))
    ELSE IF ~resourceObj.hasMetadata
    THEN Invalid("missing or invalid 'metadata' field")
    ELSE IF ~IsString(resourceObj.name) \/ resourceObj.name.s = ""
    THEN Invalid("missing or invalid 'metadata.name' field")
    ELSE [kind |-> resourceObj.kind.s, apiVersion |-> resourceObj.apiVersion.s,
          name |-> resourceObj.name.s, err |-> NoErr]

validateResource_NoGroupCheck(resourceObj) ==
    IF ~IsString(resourceObj.kind) \/ resourceObj.kind.s = ""
    THEN Invalid("missing or invalid 'kind' field")
    ELSE IF ~IsString(resourceObj.apiVersion) \/ resourceObj.apiVersion.s = <<>>
    THEN Invalid("missing or invalid 'apiVersion' field")
    ELSE IF ParseGroupVersion(resourceObj.apiVersion.s).bad
    THEN InvalidErr(WrapArgs("invalid apiVersion format '%s'",
                             <<Join(resourceObj.apiVersion.s)>>, "parse"))
    ELSE IF ~resourceObj.hasMetadata
    THEN Invalid("missing or invalid 'metadata' field")
    ELSE IF ~IsString(resourceObj.name) \/ resourceObj.name.s = ""
    THEN Invalid("missing or invalid 'metadata.name' field")
    ELSE [kind |-> resourceObj.kind.s, apiVersion |-> resourceObj.apiVersion.s,
          name |-> resourceObj.name.s, err |-> NoErr]

validateResource_EmptyNameAccepted(resourceObj) ==
    IF ~IsString(resourceObj.kind) \/ resourceObj.kind.s = ""
    THEN Invalid("missing or invalid 'kind' field")
    ELSE IF ~IsString(resourceObj.apiVersion) \/ resourceObj.apiVersion.s = <<>>
    THEN Invalid("missing or invalid 'apiVersion' field")
    ELSE IF ParseGroupVersion(resourceObj.apiVersion.s).bad
    THEN InvalidErr(WrapArgs("invalid apiVersion format '%s'",
                             <<Join(resourceObj.apiVersion.s)>>, "parse"))
    ELSE IF ParseGroupVersion(resourceObj.apiVersion.s).Group # openchoreoGroup
    THEN InvalidErr(ErrorfArgs(
            "only resources with 'openchoreo.dev' group are supported, got '%s'",
            <<ParseGroupVersion(resourceObj.apiVersion.s).Group>>))
    ELSE IF ~resourceObj.hasMetadata
    THEN Invalid("missing or invalid 'metadata' field")
    ELSE IF ~IsString(resourceObj.name)
    THEN Invalid("missing or invalid 'metadata.name' field")
    ELSE [kind |-> resourceObj.kind.s, apiVersion |-> resourceObj.apiVersion.s,
          name |-> resourceObj.name.s, err |-> NoErr]

validateResource(resourceObj) ==
    IF ~IsString(resourceObj.kind) \/ resourceObj.kind.s = ""
    THEN Invalid("missing or invalid 'kind' field")
    ELSE IF ~IsString(resourceObj.apiVersion) \/ resourceObj.apiVersion.s = <<>>
    THEN Invalid("missing or invalid 'apiVersion' field")
    ELSE IF ParseGroupVersion(resourceObj.apiVersion.s).bad
    THEN InvalidErr(WrapArgs("invalid apiVersion format '%s'",
                             <<Join(resourceObj.apiVersion.s)>>, "parse"))
    ELSE IF ParseGroupVersion(resourceObj.apiVersion.s).Group # openchoreoGroup
    THEN InvalidErr(ErrorfArgs(
            "only resources with 'openchoreo.dev' group are supported, got '%s'",
            <<ParseGroupVersion(resourceObj.apiVersion.s).Group>>))
    ELSE IF ~resourceObj.hasMetadata
    THEN Invalid("missing or invalid 'metadata' field")
    ELSE IF ~IsString(resourceObj.name) \/ resourceObj.name.s = ""
    THEN Invalid("missing or invalid 'metadata.name' field")
    ELSE [kind |-> resourceObj.kind.s, apiVersion |-> resourceObj.apiVersion.s,
          name |-> resourceObj.name.s, err |-> NoErr]

\* ------------------------------------------------ the unstructured object

\* unstructured.Unstructured{Object: resourceObj} of a validated document,
\* with the accessors the code uses: GetNamespace() is "" unless
\* metadata.namespace is a string.
GetNamespace(resourceObj) ==
    IF resourceObj.hasMetadata /\ IsString(resourceObj.namespace)
    THEN resourceObj.namespace.s ELSE ""

Unstructured(resourceObj) ==
    [apiVersion |-> resourceObj.apiVersion.s,
     kind |-> resourceObj.kind.s,
     name |-> resourceObj.name.s,
     namespace |-> GetNamespace(resourceObj),
     spec |-> resourceObj.spec]

\* obj.GroupVersionKind(): schema.FromAPIVersionAndKind
GroupVersionKind(obj) ==
    LET gv == ParseGroupVersion(obj.apiVersion)
    IN  IF gv.bad THEN [Group |-> "", Version |-> "", Kind |-> obj.kind]
        ELSE [Group |-> gv.Group, Version |-> gv.Version, Kind |-> obj.kind]

\* ------------------------------------------------ handleResourceNamespace

handleNamespacedResource_Always(obj) ==
    [obj EXCEPT !.namespace = defaultNamespace]

handleNamespacedResource(obj) ==
    IF obj.namespace # "" THEN obj
    ELSE [obj EXCEPT !.namespace = defaultNamespace]

\* obj.GroupVersionKind() is never Empty() here: validateResource has
\* returned a non-empty kind, so the branch that rebuilds it is not taken.
handleResourceNamespace(obj, apiVersion, kind) ==
    IF kind \in clusterScopedKinds
    THEN IF obj.namespace # "" THEN [obj EXCEPT !.namespace = ""] ELSE obj
    ELSE handleNamespacedResource(obj)

\* -------------------------------------------------------------- the store

\* What the controller-runtime client does with a call, as the layer relies
\* on it: an object is addressed by the GroupVersionKind set on it, its
\* namespace and its name; versions of one kind address the same objects;
\* the namespace of a call counts only for a kind the cluster declares
\* namespaced.
TenantGVK_V1(kind) == [Group |-> openchoreoGroup, Version |-> "v1", Kind |-> kind]

TenantGVK(kind) == [Group |-> openchoreoGroup, Version |-> defaultVersion, Kind |-> kind]

\* The options a store call is made with: the patch type client.Apply with
\* client.ForceOwnership and client.FieldOwner; none for the other calls.
NoOptions == [apply |-> FALSE, force |-> FALSE, fieldOwner |-> ""]

\* A store call as calls[p] records it, with the error the store answered.
Call(verb, gvk, namespace, name, err) ==
    [verb |-> verb, group |-> gvk.Group, version |-> gvk.Version,
     kind |-> gvk.Kind, namespace |-> namespace, name |-> name,
     options |-> NoOptions, err |-> err]

\* The type the schema service reads: apiextensionsv1.CustomResourceDefinition.
CRDGVK == [Group |-> "apiextensions.k8s.io", Version |-> "v1",
           Kind |-> "CustomResourceDefinition"]

\* The tenant kinds the cluster declares cluster-scoped.
DeclaredClusterScoped == {"Organization", "WidgetClass"}

NamespaceIfScoped(gvk, namespace) ==
    IF gvk.Group = openchoreoGroup /\ gvk.Kind \in DeclaredClusterScoped
    THEN "" ELSE namespace

StoreFind_AnyNamespace(gvk, namespace, name) ==
    {o \in store : o.group = gvk.Group /\ o.kind = gvk.Kind /\ o.name = name}

StoreFind(gvk, namespace, name) ==
    {o \in store : /\ o.group = gvk.Group /\ o.kind = gvk.Kind
                   /\ o.namespace = NamespaceIfScoped(gvk, namespace)
                   /\ o.name = name}

\* The error of k8sClient.Get: "" for nil.
StoreGet(gvk, namespace, name, fault) ==
    IF fault # "" THEN fault
    ELSE IF StoreFind(gvk, namespace, name) = {} THEN "NotFound" ELSE ""

\* metav1.Time: a date and a clock reading; the zero value of time.Time is
\* 0001-01-01 00:00:00.
Time(date, clock) == [date |-> date, clock |-> clock]
ZeroTime == Time(<<1, 1, 1>>, <<0, 0, 0>>)
IsZero(t) == t = ZeroTime

\* The creationTimestamp the store stamps on an object it creates.
CreatedTime == Time(<<2025, 1, 2>>, <<3, 4, 5>>)

\* metadata.labels of an object that has none, and the status of an object:
\* absent, an object with its fields, or a value of another type.
NoLabels == [k \in {} |-> ""]
StatusObject(fields) == [t |-> "object", m |-> fields]

\* The object as the store keeps it: the documents applied carry no labels,
\* and a status is written by a controller, not by the apply.
Stored(obj) ==
    [group |-> GroupVersionKind(obj).Group, kind |-> obj.kind,
     namespace |-> NamespaceIfScoped(GroupVersionKind(obj), obj.namespace),
     name |-> obj.name, spec |-> obj.spec,
     labels |-> NoLabels, creationTimestamp |-> CreatedTime, status |-> Missing]

StoreCreateErr_Unchecked(obj, fault) == fault

\* The error of k8sClient.Create: create fails if the object exists.
StoreCreateErr(obj, fault) ==
    IF fault # "" THEN fault
    ELSE IF StoreFind(GroupVersionKind(obj), obj.namespace, obj.name) # {}
    THEN "AlreadyExists" ELSE ""

\* The error of k8sClient.Patch(client.Apply, ForceOwnership, FieldOwner):
\* on an object that is gone the store either answers not-found or, as a
\* server-side apply, creates it (ssaCreates).
StorePatchErr(obj, fault, ssaCreates) ==
    IF fault # "" THEN fault
    ELSE IF StoreFind(GroupVersionKind(obj), obj.namespace, obj.name) = {} /\ ~ssaCreates
    THEN "NotFound" ELSE ""

\* The store after a Patch that answered nil: the object replaces the one at
\* its coordinates, or is created there.
StorePatch_ExistingOnly(obj) ==
    IF StoreFind(GroupVersionKind(obj), obj.namespace, obj.name) = {} THEN store
    ELSE (store \ StoreFind(GroupVersionKind(obj), obj.namespace, obj.name))
            \cup {Stored(obj)}

StorePatch(obj) ==
    (store \ StoreFind(GroupVersionKind(obj), obj.namespace, obj.name))
        \cup {Stored(obj)}

\* The error of k8sClient.Delete.
StoreDeleteErr(gvk, namespace, name, fault) ==
    IF fault # "" THEN fault
    ELSE IF StoreFind(gvk, namespace, name) = {} THEN "NotFound" ELSE ""

\* The items of k8sClient.List: every object of the kind, or those of one
\* namespace under client.InNamespace.
StoreList(gvk, namespace) ==
    {o \in store : /\ o.group = gvk.Group /\ o.kind = gvk.Kind
                   /\ \/ NamespaceIfScoped(gvk, namespace) = ""
                      \/ o.namespace = namespace}

\* The orders in which a list call can return a set of entries.
Orders(S) ==
    {s \in [1..Cardinality(S) -> S] : \A i, j \in 1..Cardinality(S) : s[i] = s[j] => i = j}

\* No script is running.
NoScript == [script |-> "none"]

\* ------------------------------------------------------------ the callers

Procs == {"p1", "p2"}

NoCur == [none |-> TRUE]
NoOut == [none |-> TRUE]
NoReq == [syntax |-> "none"]
NoRes == [op |-> "none", err |-> NoErr, out |-> NoOut]

Result(op, err, out) == [op |-> op, err |-> err, out |-> out]

\* The result of caller p's last completed call, if that call was an
\* ApplyResourceFromJSON of this same document that returned "created".
JustCreated(p, doc) ==
    IF /\ res[p].op = "apply" /\ res[p].err = NoErr
       /\ res[p].out.operation = "created"
       /\ req[p] = doc
    THEN res[p].out ELSE NoOut

\* A call that returns without (further) store calls.
Return(p, args, result) ==
    /\ req' = [req EXCEPT ![p] = args]
    /\ res' = [res EXCEPT ![p] = result]

\* ------------------------------------------------------- applyToKubernetes

\* What applyToKubernetes does with the error of its existence check.
existsBranch_AlwaysCreate(getErr) ==
    IF getErr # "" /\ getErr # "NotFound" THEN "fail" ELSE "create"

existsBranch_AnyErrorCreates(getErr) ==
    IF getErr # "" THEN "create" ELSE "patch"

existsBranch(getErr) ==
    IF getErr # ""
    THEN IF getErr # "NotFound" THEN "fail" ELSE "create"
    ELSE "patch"

\* Where applyToKubernetes goes once Create or Patch has answered: it
\* returns, with the error or with the operation.
afterWrite_RetryOnConflict(verb, err) ==
    IF err = "Conflict" THEN verb ELSE "idle"

afterWrite(verb, err) == "idle"

fieldManager == "openchoreo-mcp"

patchOptions_NoForce == [apply |-> TRUE, force |-> FALSE, fieldOwner |-> fieldManager]

patchOptions == [apply |-> TRUE, force |-> TRUE, fieldOwner |-> fieldManager]

\* ---------------------------------------------------- ApplyResourceFromJSON

\* Create and Patch decode the store's answer into obj, so the namespace the
\* result reports is the one of the object as stored.
ApplyResult(apiVersion, kind, name, obj, operation) ==
    [apiVersion |-> apiVersion, kind |-> kind, name |-> name,
     namespace |-> Stored(obj).namespace, operation |-> operation]

\* ApplyResourceFromJSON up to the answer of the existence check.
ApplyResourceFromJSON(p, doc, fault) ==
    /\ UNCHANGED sh
    /\ pc[p] = "idle"
    /\ UNCHANGED <<store, catalog>>
    /\ IF doc.syntax # "object"
       THEN /\ Return(p, doc, Result("apply", Wrap("failed to parse resource", "json"), NoOut))
            /\ calls' = [calls EXCEPT ![p] = <<>>]
            /\ UNCHANGED <<pc, cur>>
       ELSE LET v == validateResource(doc) IN
            IF v.err # NoErr
            THEN /\ Return(p, doc, Result("apply", v.err, NoOut))
                 /\ calls' = [calls EXCEPT ![p] = <<>>]
                 /\ UNCHANGED <<pc, cur>>
            ELSE LET obj == handleResourceNamespace(Unstructured(doc), v.apiVersion, v.kind)
                     gvk == GroupVersionKind(obj)
                     getErr == StoreGet(gvk, obj.namespace, obj.name, fault)
                 IN  /\ calls' = [calls EXCEPT ![p] =
                                    <<Call("get", gvk, obj.namespace, obj.name, getErr)>>]
                     /\ IF existsBranch(getErr) = "fail"
                        THEN /\ Return(p, doc, Result("apply",
                                          Wrap("failed to apply resource", getErr), NoOut))
                             /\ UNCHANGED <<pc, cur>>
                        ELSE /\ pc' = [pc EXCEPT ![p] = existsBranch(getErr)]
                             /\ cur' = [cur EXCEPT ![p] =
                                   [v |-> v, obj |-> obj, created |-> JustCreated(p, doc)]]
                             /\ Return(p, doc, NoRes)

\* applyToKubernetes: the object was not found, create it.
ApplyCreate(p, fault) ==
    /\ UNCHANGED sh
    /\ pc[p] = "create"
    /\ LET obj == cur[p].obj
           v == cur[p].v
           err == StoreCreateErr(obj, fault)
       IN  /\ calls' = [calls EXCEPT ![p] =
                  Append(@, Call("create", GroupVersionKind(obj), obj.namespace, obj.name, err))]
           /\ IF err # ""
              THEN /\ store' = store
                   /\ res' = [res EXCEPT ![p] =
                         Result("apply", Wrap("failed to apply resource", err), NoOut)]
              ELSE /\ store' = store \cup {Stored(obj)}
                   /\ res' = [res EXCEPT ![p] =
                         Result("apply", NoErr,
                                ApplyResult(v.apiVersion, v.kind, v.name, obj, "created"))]
           /\ pc' = [pc EXCEPT ![p] = afterWrite("create", err)]
           /\ cur' = [cur EXCEPT ![p] = IF afterWrite("create", err) = "idle"
                                        THEN NoCur ELSE @]
    /\ UNCHANGED <<catalog, req>>

\* applyToKubernetes: the object exists, server-side apply it.
ApplyPatch(p, fault, ssaCreates) ==
    /\ UNCHANGED sh
    /\ pc[p] = "patch"
    /\ LET obj == cur[p].obj
           v == cur[p].v
           gvk == GroupVersionKind(obj)
           err == StorePatchErr(obj, fault, ssaCreates)
       IN  /\ calls' = [calls EXCEPT ![p] =
                  Append(@, [Call("patch", gvk, obj.namespace, obj.name, err)
                                EXCEPT !.options = patchOptions])]
           /\ IF err # ""
              THEN /\ store' = store
                   /\ res' = [res EXCEPT ![p] =
                         Result("apply", Wrap("failed to apply resource", err), NoOut)]
              ELSE /\ store' = StorePatch(obj)
                   /\ res' = [res EXCEPT ![p] =
                         Result("apply", NoErr,
                                ApplyResult(v.apiVersion, v.kind, v.name, obj, "updated"))]
           /\ pc' = [pc EXCEPT ![p] = afterWrite("patch", err)]
           /\ cur' = [cur EXCEPT ![p] = IF afterWrite("patch", err) = "idle"
                                        THEN NoCur ELSE @]
    /\ UNCHANGED <<catalog, req>>

\* ------------------------------------------------------ GetResourceFromKind

Coords(kind, name, namespace) == [kind |-> kind, name |-> name, namespace |-> namespace]

TenantAPIVersion == <<openchoreoGroup, "/", defaultVersion>>

GetResourceFromKind(p, kind, name, namespace, fault) ==
    /\ UNCHANGED sh
    /\ pc[p] = "idle"
    /\ UNCHANGED <<store, catalog, pc, cur>>
    /\ req' = [req EXCEPT ![p] = Coords(kind, name, namespace)]
    /\ IF kind = ""
       THEN /\ res' = [res EXCEPT ![p] = Result("get", Errorf("kind is required"), NoOut)]
            /\ calls' = [calls EXCEPT ![p] = <<>>]
       ELSE IF name = ""
       THEN /\ res' = [res EXCEPT ![p] = Result("get", Errorf("name is required"), NoOut)]
            /\ calls' = [calls EXCEPT ![p] = <<>>]
       ELSE LET gvk == TenantGVK(kind)
                err == StoreGet(gvk, namespace, name, fault)
            IN  /\ calls' = [calls EXCEPT ![p] = <<Call("get", gvk, namespace, name, err)>>]
                /\ IF err # ""
                   THEN res' = [res EXCEPT ![p] =
                           Result("get", Wrap("failed to get resource", err), NoOut)]
                   ELSE \E o \in StoreFind(gvk, namespace, name) :
                        res' = [res EXCEPT ![p] =
                           Result("get", NoErr,
                                  [apiVersion |-> TenantAPIVersion, kind |-> o.kind,
                                   name |-> o.name, namespace |-> o.namespace,
                                   spec |-> o.spec])]

\* --------------------------------------------------- DeleteResourceFromKind

\* fmt.Sprintf("Resource %s/%s deleted successfully", kind, name)
DeletedMessage(kind, name) == <<"Resource ", kind, "/", name, " deleted successfully">>

DeleteResourceResult_DefaultNamespace(kind, name, namespace) ==
    [apiVersion |-> TenantAPIVersion, kind |-> kind, name |-> name,
     namespace |-> IF namespace = "" THEN defaultNamespace ELSE namespace,
     message |-> DeletedMessage(kind, name)]

DeleteResourceResult(kind, name, namespace) ==
    [apiVersion |-> TenantAPIVersion, kind |-> kind, name |-> name,
     namespace |-> namespace, message |-> DeletedMessage(kind, name)]

DeleteResourceFromKind(p, kind, name, namespace, fault) ==
    /\ UNCHANGED sh
    /\ pc[p] = "idle"
    /\ UNCHANGED <<catalog, pc, cur>>
    /\ req' = [req EXCEPT ![p] = Coords(kind, name, namespace)]
    /\ IF kind = ""
       THEN /\ res' = [res EXCEPT ![p] = Result("delete", Errorf("kind is required"), NoOut)]
            /\ calls' = [calls EXCEPT ![p] = <<>>]
            /\ store' = store
       ELSE IF name = ""
       THEN /\ res' = [res EXCEPT ![p] = Result("delete", Errorf("name is required"), NoOut)]
            /\ calls' = [calls EXCEPT ![p] = <<>>]
            /\ store' = store
       ELSE LET gvk == TenantGVK(kind)
                err == StoreDeleteErr(gvk, namespace, name, fault)
            IN  /\ calls' = [calls EXCEPT ![p] = <<Call("delete", gvk, namespace, name, err)>>]
                /\ IF err # ""
                   THEN /\ store' = store
                        /\ res' = [res EXCEPT ![p] =
                              Result("delete", Wrap("failed to delete resource", err), NoOut)]
                   ELSE /\ store' = store \ StoreFind(gvk, namespace, name)
                        /\ res' = [res EXCEPT ![p] =
                              Result("delete", NoErr,
                                     DeleteResourceResult(kind, name, namespace))]

\* ---------------------------------------------------- ListResourcesFromKind

\* creationTime.Format("2006-01-02T15:04:05Z"): the reading in the zone of
\* the value followed by a literal Z.
FormatTime(t) ==
    <<t.date[1], "-", t.date[2], "-", t.date[3], "T",
      t.clock[1], ":", t.clock[2], ":", t.clock[3], "Z">>

\* if !creationTime.Time.IsZero() { summary.CreatedAt = ... }
createdAt_Always(t) == FormatTime(t)

createdAt(t) == IF ~IsZero(t) THEN FormatTime(t) ELSE <<>>

\* item.Object["status"].(map[string]interface{}): nil unless an object.
statusOf(item) == IF item.status.t = "object" THEN Ptr(item.status.m) ELSE Nil

ResourceSummary(item) ==
    [name |-> item.name, namespace |-> item.namespace, labels |-> item.labels,
     createdAt |-> createdAt(item.creationTimestamp), status |-> statusOf(item)]

ListCount_AllNamespaces(kind, namespace, items) ==
    Cardinality(StoreList(TenantGVK(kind), ""))

\* The list call as calls[p] records it, with the items the store returned.
Listed(call, list) == call @@ [returned |-> list]

\* TotalCount: len(items)
ListCount(kind, namespace, items) == Len(items)

ListResourcesFromKind(p, kind, namespace, fault) ==
    /\ UNCHANGED sh
    /\ pc[p] = "idle"
    /\ UNCHANGED <<store, catalog, pc, cur>>
    /\ req' = [req EXCEPT ![p] = Coords(kind, "", namespace)]
    /\ IF kind = ""
       THEN /\ res' = [res EXCEPT ![p] = Result("list", Errorf("kind is required"), NoOut)]
            /\ calls' = [calls EXCEPT ![p] = <<>>]
       ELSE LET gvk == TenantGVK(kind) IN
            IF fault # ""
            THEN /\ calls' = [calls EXCEPT ![p] =
                       <<Call("list", gvk, namespace, "", fault)>>]
                 /\ res' = [res EXCEPT ![p] =
                       Result("list", Wrap("failed to list resources", fault), NoOut)]
            ELSE \E list \in Orders(StoreList(gvk, namespace)) :
                    LET items == [i \in 1..Len(list) |-> ResourceSummary(list[i])]
                    IN  /\ calls' = [calls EXCEPT ![p] =
                              <<Listed(Call("list", gvk, namespace, "", fault), list)>>]
                        /\ res' = [res EXCEPT ![p] =
                           Result("list", NoErr,
                                  [apiVersion |-> TenantAPIVersion, kind |-> kind,
                                   items |-> items,
                                   totalCount |-> ListCount(kind, namespace, items)])]

\* ------------------------------------------------------------ the catalog

\* A CustomResourceDefinition: metadata.name, spec.group, spec.names,
\* spec.scope and spec.versions (name and storage flag of each).

\* A Go map with string keys: make(map[string]...), m[k] = v, len(m).
EmptyMap == [k \in {} |-> TRUE]
Put(m, k, v) == [x \in DOMAIN m \cup {k} |-> IF x = k THEN v ELSE m[x]]

CRD(name, group, kind, plural, singular, scope, versions) ==
    [Name |-> name, Group |-> group, Kind |-> kind, Plural |-> plural,
     Singular |-> singular, Scope |-> scope, Versions |-> versions,
     ShortNames |-> <<>>, Categories |-> <<>>, Annotations |-> EmptyMap]

\* A declared version without a schema, and one whose Schema.OpenAPIV3Schema
\* is set.
Version(name, storage) == [Name |-> name, Storage |-> storage, Schema |-> Nil]

VersionWithSchema(name, storage, schema) ==
    [Name |-> name, Storage |-> storage,
     Schema |-> Ptr([OpenAPIV3Schema |-> Ptr(schema)])]

\* The zero value of apiextensionsv1.JSONSchemaProps, with the fields the
\* conversion reads and one it does not (Nullable).  Items is a
\* *JSONSchemaPropsOrArray [Schema], AdditionalProperties a
\* *JSONSchemaPropsOrBool [Allows, Schema].
JSONSchemaProps ==
    [Type |-> "", Description |-> "", Format |-> "", Title |-> "",
     Default |-> Nil, Example |-> Nil, Enum |-> <<>>, Required |-> <<>>,
     Properties |-> EmptyMap, Items |-> Nil, AdditionalProperties |-> Nil,
     MinLength |-> Nil, MaxLength |-> Nil, Pattern |-> "",
     Minimum |-> Nil, Maximum |-> Nil, MinItems |-> Nil, MaxItems |-> Nil,
     UniqueItems |-> FALSE, Nullable |-> FALSE]

\* Schemas of the example types: {type: string}, {type: object} and
\* {type: object, properties: {tags: {type: array, items: {type: string}}}}.
StringSchema == [JSONSchemaProps EXCEPT !.Type = "string"]
ObjectSchema == [JSONSchemaProps EXCEPT !.Type = "object"]
TagsSchema ==
    [JSONSchemaProps EXCEPT
        !.Type = "object",
        !.Properties = [name \in {"tags"} |->
            [JSONSchemaProps EXCEPT !.Type = "array",
                                    !.Items = Ptr([Schema |-> Ptr(StringSchema)])]]]

\* The definitions a cluster may hold: tenant-group types (two of them with
\* the same kind; with a flagged version that is not the first, two flagged
\* versions, no flagged version, no version at all), and a type of another
\* group.
CRDUniverse ==
    { CRD("widgets.openchoreo.dev", openchoreoGroup, "Widget", "widgets", "widget",
          "Namespaced", <<VersionWithSchema("v1alpha1", FALSE, StringSchema),
                          VersionWithSchema("v1", TRUE, TagsSchema)>>),
      CRD("gadgets.openchoreo.dev", openchoreoGroup, "Widget", "gadgets", "gadget",
          "Namespaced", <<>>),
      CRD("widgetclasses.openchoreo.dev", openchoreoGroup, "WidgetClass",
          "widgetclasses", "widgetclass", "Cluster",
          <<Version("v1alpha1", FALSE),
            [Version("v1beta1", TRUE) EXCEPT !.Schema = Ptr([OpenAPIV3Schema |-> Nil])],
            VersionWithSchema("v1", TRUE, StringSchema)>>),
      CRD("organizations.openchoreo.dev", openchoreoGroup, "Organization",
          "organizations", "organization", "Cluster",
          <<VersionWithSchema("v1alpha1", FALSE, ObjectSchema),
            Version("v1beta1", FALSE)>>),
      CRD("widgets.other.example", "other.example", "Widget", "widgets", "widget",
          "Namespaced", <<VersionWithSchema("v1", TRUE, TagsSchema)>>) }

\* The bytes of a kind, for Go's string comparison.
KindBytes(kind) ==
    CASE kind = "Widget" -> <<87, 105, 100, 103, 101, 116>>
      [] kind = "WidgetClass" -> <<87, 105, 100, 103, 101, 116, 67, 108, 97, 115, 115>>
      [] kind = "Organization" -> <<79, 114, 103, 97, 110, 105, 122, 97, 116, 105, 111, 110>>

\* Go's a < b on strings.
RECURSIVE StringLess(_, _)
StringLess(a, b) ==
    IF Len(b) = 0 THEN FALSE
    ELSE IF Len(a) = 0 THEN TRUE
    ELSE IF Head(a) # Head(b) THEN Head(a) < Head(b)
    ELSE StringLess(Tail(a), Tail(b))

\* ----------------------------------------------------------------- ListCRDs

\* The storage version: the first one flagged, else the first declared.
RECURSIVE FirstStorage(_)
FirstStorage(versions) ==
    IF Len(versions) = 0 THEN ""
    ELSE IF Head(versions).Storage THEN Head(versions).Name
    ELSE FirstStorage(Tail(versions))

storageVersion_FirstDeclared(crd) ==
    IF Len(crd.Versions) > 0 THEN crd.Versions[1].Name ELSE ""

storageVersion(crd) ==
    IF FirstStorage(crd.Versions) = "" /\ Len(crd.Versions) > 0
    THEN crd.Versions[1].Name
    ELSE FirstStorage(crd.Versions)

CRDInfo(crd) ==
    [Kind |-> crd.Kind, Group |-> crd.Group, Version |-> storageVersion(crd),
     Namespaced |-> (crd.Scope = "Namespaced"),
     Plural |-> crd.Plural, Singular |-> crd.Singular]

\* Only include OpenChoreo CRDs.
includeCRD_All(crd) == TRUE

includeCRD(crd) == crd.Group = openchoreoGroup

\* The loop over crdList.Items: filter and convert, keeping the order.
RECURSIVE FilterCRDs(_)
FilterCRDs(items) ==
    IF Len(items) = 0 THEN <<>>
    ELSE IF includeCRD(Head(items))
    THEN <<CRDInfo(Head(items))>> \o FilterCRDs(Tail(items))
    ELSE FilterCRDs(Tail(items))

\* The less function given to sort.Slice.
crdLess(a, b) == StringLess(KindBytes(a.Kind), KindBytes(b.Kind))

\* sort.Slice on a slice of at most 12 elements: an insertion sort.
Swap(s, i, j) == [s EXCEPT ![i] = s[j], ![j] = s[i]]

RECURSIVE SiftLeft(_, _)
SiftLeft(s, j) ==
    IF j > 1 /\ crdLess(s[j], s[j - 1]) THEN SiftLeft(Swap(s, j, j - 1), j - 1) ELSE s

RECURSIVE InsertionSort(_, _)
InsertionSort(s, i) ==
    IF i > Len(s) THEN s ELSE InsertionSort(SiftLeft(s, i), i + 1)

sortSlice_Skip(s) == s

sortSlice(s) == InsertionSort(s, 2)

\* ListCRDs takes no arguments; req[p] keeps, as history, the catalog the
\* call listed.
ListCRDs(p, fault) ==
    /\ UNCHANGED sh
    /\ pc[p] = "idle"
    /\ UNCHANGED <<store, catalog, pc, cur>>
    /\ req' = [req EXCEPT ![p] = [catalog |-> catalog]]
    /\ calls' = [calls EXCEPT ![p] =
           <<Call("list", CRDGVK, "", "", fault)>>]
    /\ IF fault # ""
       THEN res' = [res EXCEPT ![p] =
               Result("listcrds", Wrap("failed to list CRDs", fault), NoOut)]
       ELSE \E items \in Orders(catalog) :
            res' = [res EXCEPT ![p] =
               Result("listcrds", NoErr, [crds |-> sortSlice(FilterCRDs(items))])]

\* ------------------------------------------- convertOpenAPISchemaToMap

\* if s != "" { result[key] = s }
putString(result, key, s) == IF s # "" THEN Put(result, key, s) ELSE result

\* if p != nil { result[key] = p }
putPointer(result, key, p) == IF p # Nil THEN Put(result, key, p) ELSE result

\* if len(list) > 0 { result[key] = list }
putSlice(result, key, list) == IF Len(list) > 0 THEN Put(result, key, list) ELSE result

derefBound_ZeroOmitted(result, key, p) ==
    IF p # Nil /\ p.v # 0 THEN Put(result, key, p.v) ELSE result

\* if p != nil { result[key] = *p }
derefBound(result, key, p) == IF p # Nil THEN Put(result, key, p.v) ELSE result

\* if b { result[key] = b }
putFlag(result, key, b) == IF b THEN Put(result, key, b) ELSE result

\* p != nil && p.Schema != nil
hasSchema(p) == p # Nil /\ p.v.Schema # Nil

RECURSIVE convertOpenAPISchemaToMap(_)

convertProperties_TypeOnly(props) ==
    [propName \in DOMAIN props |->
        putString(EmptyMap, "type", props[propName].Type)]

\* The loop over schema.Properties.
convertProperties(props) ==
    [propName \in DOMAIN props |-> convertOpenAPISchemaToMap(props[propName])]

convertOpenAPISchemaToMap(schema) ==
    LET r1 == putString(EmptyMap, "type", schema.Type)
        r2 == putString(r1, "description", schema.Description)
        r3 == putString(r2, "format", schema.Format)
        r4 == putString(r3, "title", schema.Title)
        r5 == putPointer(r4, "default", schema.Default)
        r6 == putPointer(r5, "example", schema.Example)
        r7 == putSlice(r6, "enum", schema.Enum)
        r8 == putSlice(r7, "required", schema.Required)
        r9 == IF Cardinality(DOMAIN schema.Properties) > 0
              THEN Put(r8, "properties", convertProperties(schema.Properties))
              ELSE r8
        r10 == IF hasSchema(schema.Items)
               THEN Put(r9, "items", convertOpenAPISchemaToMap(schema.Items.v.Schema.v))
               ELSE r9
        r11 == IF hasSchema(schema.AdditionalProperties)
               THEN Put(r10, "additionalProperties",
                        convertOpenAPISchemaToMap(schema.AdditionalProperties.v.Schema.v))
               ELSE r10
        r12 == derefBound(r11, "minLength", schema.MinLength)
        r13 == derefBound(r12, "maxLength", schema.MaxLength)
        r14 == putString(r13, "pattern", schema.Pattern)
        r15 == derefBound(r14, "minimum", schema.Minimum)
        r16 == derefBound(r15, "maximum", schema.Maximum)
        r17 == derefBound(r16, "minItems", schema.MinItems)
        r18 == derefBound(r17, "maxItems", schema.MaxItems)
    IN  putFlag(r18, "uniqueItems", schema.UniqueItems)

\* ------------------------------------------------------------------- GetCRD

\* k8sClient.Get(ctx, client.ObjectKey{Name: crdName}, &crd) and its error.
CatalogFind_Remembered(crdName) ==
    LET known == {p \in Procs : /\ res[p].op = "getcrd" /\ res[p].err = NoErr
                                /\ req[p].crdName = crdName}
    IN  IF known # {}
        THEN {crd \in req[CHOOSE p \in known : TRUE].catalog : crd.Name = crdName}
        ELSE {crd \in catalog : crd.Name = crdName}

CatalogFind(crdName) == {crd \in catalog : crd.Name = crdName}

CatalogGetErr(crdName, fault) ==
    IF fault # "" THEN fault
    ELSE IF CatalogFind(crdName) = {} THEN "NotFound" ELSE ""

\* Only allow OpenChoreo CRDs.
allowCRD_All(crd) == TRUE

allowCRD(crd) == crd.Group = openchoreoGroup

\* The version the first loop of GetCRD stops at: the first one flagged.
RECURSIVE FirstStorageSpec(_)
FirstStorageSpec(versions) ==
    IF Len(versions) = 0 THEN Nil
    ELSE IF Head(versions).Storage THEN Ptr(Head(versions))
    ELSE FirstStorageSpec(Tail(versions))

storageVersionSpec_FirstDeclared(crd) ==
    IF Len(crd.Versions) > 0 THEN Ptr(crd.Versions[1]) ELSE Nil

\* storageVersionSpec after the fallback to the first declared version.
storageVersionSpec(crd) ==
    IF FirstStorageSpec(crd.Versions) = Nil /\ Len(crd.Versions) > 0
    THEN Ptr(crd.Versions[1])
    ELSE FirstStorageSpec(crd.Versions)

\* The schema GetCRD extracts: nil unless the version, its Schema and the
\* OpenAPIV3Schema are all set.
extractSchema(versionSpec) ==
    IF /\ versionSpec # Nil
       /\ versionSpec.v.Schema # Nil
       /\ versionSpec.v.Schema.v.OpenAPIV3Schema # Nil
    THEN Ptr(convertOpenAPISchemaToMap(versionSpec.v.Schema.v.OpenAPIV3Schema.v))
    ELSE Nil

\* The description annotation, if any.
crdDescription(crd) ==
    IF "description" \in DOMAIN crd.Annotations
    THEN crd.Annotations["description"] ELSE ""

CRDDetails(crd) ==
    [Name |-> crd.Name, Kind |-> crd.Kind, Group |-> crd.Group,
     Version |-> IF storageVersionSpec(crd) = Nil THEN ""
                 ELSE storageVersionSpec(crd).v.Name,
     Namespaced |-> (crd.Scope = "Namespaced"),
     Plural |-> crd.Plural, Singular |-> crd.Singular,
     ShortNames |-> crd.ShortNames, Categories |-> crd.Categories,
     Schema |-> extractSchema(storageVersionSpec(crd)),
     Description |-> crdDescription(crd)]

\* req[p] keeps the name asked for and, as history, the catalog at the call.
GetCRD(p, crdName, fault) ==
    /\ UNCHANGED sh
    /\ pc[p] = "idle"
    /\ UNCHANGED <<store, catalog, pc, cur>>
    /\ req' = [req EXCEPT ![p] = [crdName |-> crdName, catalog |-> catalog]]
    /\ calls' = [calls EXCEPT ![p] =
           <<Call("get", CRDGVK, "", crdName, CatalogGetErr(crdName, fault))>>]
    /\ IF CatalogGetErr(crdName, fault) # ""
       THEN res' = [res EXCEPT ![p] =
               Result("getcrd", WrapArgs("failed to get CRD %s", <<crdName>>,
                                         CatalogGetErr(crdName, fault)), NoOut)]
       ELSE \E crd \in CatalogFind(crdName) :
            IF ~allowCRD(crd)
            THEN res' = [res EXCEPT ![p] =
                    Result("getcrd", ErrorfArgs("CRD %s is not an OpenChoreo CRD",
                                                <<crdName>>), NoOut)]
            ELSE res' = [res EXCEPT ![p] = Result("getcrd", NoErr, CRDDetails(crd))]

\* ------------------------------------------- the data restore script's run
\* sh of a data restore run holds the options parse_args set, the backup
\* directory's content, the function of main that runs next (pc), the
\* cluster-changing kubectl commands issued so far (done) and the exit status.
BP_NAMESPACE == "openchoreo-build-plane"
OP_NAMESPACE == "openchoreo-observability-plane"

\* A kubectl command that changes the cluster: apply, create, scale, delete
\* or exec, with what it acts on.
Cmd(verb, target) == [verb |-> verb, target |-> target]

Running(script, fn) == sh.script = script /\ sh.pc = fn

\* The function returns and main calls the next one.
Step(next, cmds) == [sh EXCEPT !.pc = next, !.done = @ \o cmds]

\* exit, or a failing simple command under `set -eo pipefail`.
ExitWith(code, cmds) ==
    [sh EXCEPT !.pc = "exit", !.status = code, !.done = @ \o cmds]

\* `if [ -f "$dir/$file" ]; then kubectl apply -f "$dir/$file" || true; fi`
ApplyIfFile(files, dir, file) ==
    IF file \in files THEN <<Cmd("apply", <<dir, file>>)>> ELSE <<>>

\* What the cluster does with one volume: the claim is missing, the restore
\* pod cannot be applied, the pod never gets ready, or the data is unpacked.
PVCOutcomes == {"no-pvc", "apply-failed", "pod-not-ready", "restored"}

restore_pvc_data(namespace, pvc_name, outcome) ==
    LET pod == <<"pod", namespace, pvc_name>>
    IN CASE outcome = "no-pvc" ->
              [cmds |-> <<>>, rc |-> 1]
         [] outcome = "apply-failed" ->
              [cmds |-> <<Cmd("apply", pod)>>, rc |-> 1]
         [] outcome = "pod-not-ready" ->
              [cmds |-> <<Cmd("apply", pod), Cmd("delete", pod)>>, rc |-> 1]
         [] outcome = "restored" ->
              [cmds |-> <<Cmd("apply", pod), Cmd("exec", <<"rm", pod>>),
                          Cmd("exec", <<"tar", pod>>), Cmd("delete", pod)>>,
               rc |-> 0]

\* `basename "$volume_file" .tar.gz`, then `sed 's/^prefix-//'`: a file name
\* is the sequence of its dash-separated parts.
StripPrefix(file, prefix) ==
    IF prefix # "" /\ Len(file) > 1 /\ Head(file) = prefix THEN Tail(file) ELSE file

\* The glob "$dir"/prefix-*.tar.gz, in the order the shell expands it.
Glob(files, prefix) ==
    SelectSeq(files, LAMBDA f : prefix = "" \/ (Len(f) > 1 /\ Head(f) = prefix))

\* `for volume_file in ...; do restore_pvc_data ns pvc file; done`: the first
\* non-zero return ends the script, so the commands stop there.
RECURSIVE forEachVolume(_, _, _, _)
forEachVolume(namespace, files, prefix, pvcs) ==
    IF files = <<>> THEN [cmds |-> <<>>, rc |-> 0]
    ELSE LET pvc_name == StripPrefix(Head(files), prefix)
             first    == restore_pvc_data(namespace, pvc_name, pvcs[pvc_name])
             rest     == forEachVolume(namespace, Tail(files), prefix, pvcs)
         IN IF first.rc # 0 THEN first
            ELSE [cmds |-> first.cmds \o rest.cmds, rc |-> rest.rc]

validate_backup ==
    /\ Running("restore-data", "validate_backup")
    /\ sh' = IF sh.BACKUP_DIR = "" \/ ~sh.backup.isDir \/ ~sh.backup.metadata
             THEN ExitWith(1, <<>>)
             ELSE Step("validate_prerequisites", <<>>)
    /\ UNCHANGED apiVars

validate_prerequisites(ok) ==
    /\ Running("restore-data", "validate_prerequisites")
    /\ sh' = IF ok THEN Step("confirm_restore", <<>>) ELSE ExitWith(1, <<>>)
    /\ UNCHANGED apiVars

confirm_restore(reply) ==
    /\ Running("restore-data", "confirm_restore")
    /\ sh' = IF sh.FORCE \/ reply = "yes"
             THEN Step("restore_openchoreo_resources", <<>>)
             ELSE ExitWith(0, <<>>)
    /\ UNCHANGED apiVars

restore_openchoreo_resources ==
    /\ Running("restore-data", "restore_openchoreo_resources")
    /\ sh' = Step("restore_user_workloads",
                  IF ~sh.backup.openchoreoResources \/ sh.DRY_RUN THEN <<>>
                  ELSE <<Cmd("apply", <<"control-plane", "openchoreo-resources.yaml">>)>>)
    /\ UNCHANGED apiVars

restore_user_workloads ==
    /\ Running("restore-data", "restore_user_workloads")
    /\ LET dp == sh.backup.dataPlane
       IN sh' = Step("restore_user_namespaces",
                     ApplyIfFile(dp, "data-plane", "namespaces.yaml")
                  \o ApplyIfFile(dp, "data-plane", "dataplane-resources.yaml")
                  \o ApplyIfFile(dp, "data-plane", "routes.yaml")
                  \o ApplyIfFile(dp, "data-plane", "gateway-config.yaml"))
    /\ UNCHANGED apiVars

\* The body of restore_user_namespaces's loop for one namespace directory.
restoreNamespaceDir(ns_dir, skipVolumes, pvcs) ==
    LET head == <<Cmd("create", <<"namespace", ns_dir.ns>>)>>
             \o ApplyIfFile(ns_dir.files, ns_dir.ns, "resources.yaml")
             \o ApplyIfFile(ns_dir.files, ns_dir.ns, "secrets.yaml")
        vols == IF ns_dir.volumes = Nil THEN [cmds |-> <<>>, rc |-> 0]
                ELSE forEachVolume(ns_dir.ns, ns_dir.volumes.v, "", pvcs)
    IN IF ~skipVolumes /\ "pvcs.yaml" \in ns_dir.files
       THEN [cmds |-> head \o ApplyIfFile(ns_dir.files, ns_dir.ns, "pvcs.yaml")
                           \o vols.cmds,
             rc |-> vols.rc]
       ELSE [cmds |-> head, rc |-> 0]

RECURSIVE forEachNamespaceDir(_, _, _)
forEachNamespaceDir(dirs, skipVolumes, pvcs) ==
    IF dirs = <<>> THEN [cmds |-> <<>>, rc |-> 0]
    ELSE LET first == restoreNamespaceDir(Head(dirs), skipVolumes, pvcs)
             rest  == forEachNamespaceDir(Tail(dirs), skipVolumes, pvcs)
         IN IF first.rc # 0 THEN first
            ELSE [cmds |-> first.cmds \o rest.cmds, rc |-> rest.rc]

restore_user_namespaces(pvcs) ==
    /\ Running("restore-data", "restore_user_namespaces")
    /\ LET dirs == sh.backup.userWorkloads
           loop == forEachNamespaceDir(dirs.v, sh.SKIP_VOLUMES, pvcs)
       IN sh' = IF dirs = Nil \/ sh.DRY_RUN
                THEN Step("restore_build_plane_data", <<>>)
                ELSE IF loop.rc # 0 THEN ExitWith(loop.rc, loop.cmds)
                ELSE Step("restore_build_plane_data", loop.cmds)
    /\ UNCHANGED apiVars

restore_build_plane_volumes(files, pvcs) ==
    forEachVolume(BP_NAMESPACE, files, "", pvcs)

restore_build_plane_data(pvcs) ==
    /\ Running("restore-data", "restore_build_plane_data")
    /\ LET bp    == sh.backup.buildPlane
           files == ApplyIfFile(bp.v.files, "build-plane", "buildplane-resources.yaml")
                 \o ApplyIfFile(bp.v.files, "build-plane", "workflows.yaml")
           vols  == IF ~sh.SKIP_VOLUMES /\ bp.v.volumes # Nil
                    THEN restore_build_plane_volumes(bp.v.volumes.v, pvcs)
                    ELSE [cmds |-> <<>>, rc |-> 0]
       IN sh' = IF bp = Nil THEN Step("restore_observability_data", <<>>)
                ELSE IF vols.rc # 0 THEN ExitWith(vols.rc, files \o vols.cmds)
                ELSE Step("restore_observability_data", files \o vols.cmds)
    /\ UNCHANGED apiVars

Scale(replicas) ==
    << Cmd("scale", <<"deployment", "opensearch", replicas>>),
       Cmd("scale", <<"statefulset", "prometheus-openchoreo-observability-prometheus", replicas>>) >>

restore_observability_volumes(files, pvcs) ==
    LET logs    == forEachVolume(OP_NAMESPACE, Glob(files, "opensearch"), "opensearch", pvcs)
        metrics == forEachVolume(OP_NAMESPACE, Glob(files, "prometheus"), "prometheus", pvcs)
    IN IF logs.rc # 0 THEN [cmds |-> Scale(0) \o logs.cmds, rc |-> logs.rc]
       ELSE IF metrics.rc # 0
       THEN [cmds |-> Scale(0) \o logs.cmds \o metrics.cmds, rc |-> metrics.rc]
       ELSE [cmds |-> Scale(0) \o logs.cmds \o metrics.cmds \o Scale(1), rc |-> 0]

restore_observability_data(pvcs) ==
    /\ Running("restore-data", "restore_observability_data")
    /\ LET op   == sh.backup.observabilityPlane
           vols == IF ~sh.SKIP_VOLUMES /\ op.v.volumes # Nil
                   THEN restore_observability_volumes(op.v.volumes.v, pvcs)
                   ELSE [cmds |-> <<>>, rc |-> 0]
       IN sh' = IF op = Nil \/ sh.DRY_RUN THEN Step("verify_restore", <<>>)
                ELSE IF vols.rc # 0 THEN ExitWith(vols.rc, vols.cmds)
                ELSE Step("verify_restore", vols.cmds)
    /\ UNCHANGED apiVars

\* `kubectl get pvc -A | grep -E "openchoreo|NAME"` is a simple command: with
\* pipefail its failure ends the script.
verify_restore(listed) ==
    /\ Running("restore-data", "verify_restore")
    /\ sh' = IF ~sh.SKIP_VOLUMES /\ ~listed THEN ExitWith(1, <<>>)
             ELSE Step("show_summary", <<>>)
    /\ UNCHANGED apiVars

show_summary ==
    /\ Running("restore-data", "show_summary")
    /\ sh' = ExitWith(0, <<>>)
    /\ UNCHANGED apiVars

\* ----------------------------------------------- the Velero restore script
\* sh of a Velero restore run holds the options parse_args set, the function
\* of main that runs next (pc), the commands issued so far that change the
\* cluster or its k3d node (done), the last log_success line (said) and the
\* exit status.
VELERO_NAMESPACE == "velero"

Say(s, line) == [s EXCEPT !.said = line]

\* check_repo_password: 0 when the cluster's secret holds REPO_PASSWORD, 1
\* when the cluster has no such secret; a different password ends the script.
check_repo_password(cluster_password) ==
    IF cluster_password = "" THEN "return 1"
    ELSE IF cluster_password # sh.REPO_PASSWORD THEN "exit 1"
    ELSE "return 0"

velero_validate_prerequisites(ok) ==
    /\ Running("velero-restore", "validate_prerequisites")
    /\ sh' = IF ok THEN Say(Step("load_repo_password", <<>>), "Prerequisites validated")
             ELSE ExitWith(1, <<>>)
    /\ UNCHANGED apiVars

load_repo_password(password_file) ==
    /\ Running("velero-restore", "load_repo_password")
    /\ sh' = IF sh.REPO_PASSWORD # "" THEN Step("ensure_repo_password", <<>>)
             ELSE IF password_file # Nil
             THEN [Step("ensure_repo_password", <<>>) EXCEPT !.REPO_PASSWORD = password_file.v]
             ELSE ExitWith(1, <<>>)
    /\ UNCHANGED apiVars

ensure_repo_password(cluster_password, applied) ==
    /\ Running("velero-restore", "ensure_repo_password")
    /\ LET checked == check_repo_password(cluster_password)
           secret  == Cmd("apply", <<"secret", VELERO_NAMESPACE, "velero-repo-credentials">>)
           restart == Cmd("delete", <<"pods", VELERO_NAMESPACE, "name=node-agent">>)
       IN sh' = CASE checked = "exit 1" -> ExitWith(1, <<>>)
                  [] checked = "return 0" ->
                       Say(Step("import_backup", <<>>), "Repository password matches")
                  [] checked = "return 1" /\ ~applied -> ExitWith(1, <<secret>>)
                  [] checked = "return 1" /\ applied ->
                       Say(Step("import_backup", <<secret, restart>>),
                           "Repository password configured")
    /\ UNCHANGED apiVars

import_backup(onHost, copied, inNode) ==
    /\ Running("velero-restore", "import_backup")
    /\ LET k3d_node == <<"k3d", sh.CLUSTER_NAME, "server-0">>
           copy     == Cmd("docker cp", <<"local", k3d_node>>)
       IN sh' = IF ~onHost THEN ExitWith(1, <<>>)
                ELSE IF ~copied \/ ~inNode THEN ExitWith(1, <<copy>>)
                ELSE Say(Step("validate_backup", <<copy>>), "Backup imported to k3d node")
    /\ UNCHANGED apiVars

\* `tr '[:lower:]' '[:upper:]'` on the phases Velero reports.
ToUpper(status) ==
    CASE status = "Completed" -> "COMPLETED"
      [] status = "PartiallyFailed" -> "PARTIALLYFAILED"
      [] status = "InProgress" -> "INPROGRESS"
      [] status = "Failed" -> "FAILED"
      [] status = "New" -> "NEW"
      [] OTHER -> status

\* backup is what `velero backup get` knows of BACKUP_NAME: Nil, or its phase.
velero_validate_backup(backup, described) ==
    /\ Running("velero-restore", "validate_backup")
    /\ sh' = IF sh.BACKUP_NAME = "" \/ backup = Nil THEN ExitWith(1, <<>>)
             ELSE IF ToUpper(backup.v) # "COMPLETED" THEN ExitWith(1, <<>>)
             ELSE IF ~described THEN ExitWith(1, <<>>)
             ELSE Say(Step("confirm_restore", <<>>), "Backup validated")
    /\ UNCHANGED apiVars

velero_confirm_restore(reply) ==
    /\ Running("velero-restore", "confirm_restore")
    /\ sh' = IF sh.FORCE \/ sh.DRY_RUN \/ reply = "yes"
             THEN Step("pre_restore_checks", <<>>)
             ELSE ExitWith(0, <<>>)
    /\ UNCHANGED apiVars

\* check_node_agent_health issues only kubectl get and kubectl wait.
pre_restore_checks(healthy, existing, reply) ==
    /\ Running("velero-restore", "pre_restore_checks")
    /\ sh' = IF sh.RESTORE_VOLUMES /\ ~healthy THEN ExitWith(1, <<>>)
             ELSE IF existing /\ ~sh.FORCE /\ reply # "yes" THEN ExitWith(0, <<>>)
             ELSE IF existing THEN Step("create_restore", <<>>)
             ELSE Say(Step("create_restore", <<>>), "No existing resources found - clean slate")
    /\ UNCHANGED apiVars

restore_args(s, name) ==
    [name |-> name, fromBackup |-> s.BACKUP_NAME,
     restoreVolumes |-> s.RESTORE_VOLUMES,
     wait |-> s.WAIT_FOR_COMPLETION /\ ~s.DRY_RUN,
     namespaceMappings |-> s.NAMESPACE_MAPPINGS]

create_restore(described, created) ==
    /\ Running("velero-restore", "create_restore")
    /\ LET name  == IF sh.RESTORE_NAME = "" THEN sh.BACKUP_NAME \o "-restore-now"
                    ELSE sh.RESTORE_NAME
           named == [sh EXCEPT !.RESTORE_NAME = name]
           run   == <<Cmd("velero restore create", restore_args(sh, name))>>
       IN sh' = IF sh.DRY_RUN
                THEN IF described
                     THEN [named EXCEPT !.pc = "exit", !.status = 0,
                                        !.said = "Dry run complete - no changes made"]
                     ELSE [named EXCEPT !.pc = "exit", !.status = 1]
                ELSE IF created
                THEN [named EXCEPT !.pc = "wait_for_restore", !.done = @ \o run,
                                   !.said = "Restore started successfully"]
                ELSE [named EXCEPT !.pc = "exit", !.status = 1, !.done = @ \o run]
    /\ UNCHANGED apiVars

\* ---------------------------------- the Velero restore script: after create
max_wait == 3600
interval == 10
max_retries == 3

Fail(s, line) == [s EXCEPT !.error = line]

\* The restore as Velero has it when the script looks: its phase, whether its
\* logs hold "no such file or directory", whether pod volume restores of it
\* are Failed, and whether new ones are InProgress after a deletion.
Restore(phase, errors, failed, retrying) ==
    [phase |-> phase, errors |-> errors, failed |-> failed, retrying |-> retrying]

DeleteFailedPVRs ==
    Cmd("delete", <<"pvr", VELERO_NAMESPACE, "status.phase=Failed">>)

\* 0 when the restore logs hold no "no such file or directory"; otherwise the
\* failed pod volume restores, if any, are deleted and the answer is 1.
check_pod_volume_restore_errors(r) ==
    IF ~r.errors THEN [cmds |-> <<>>, rc |-> 0]
    ELSE IF r.failed THEN [cmds |-> <<DeleteFailedPVRs>>, rc |-> 1]
    ELSE [cmds |-> <<>>, rc |-> 1]

fix_pod_volume_restore_errors(r) ==
    IF ~r.failed THEN [cmds |-> <<>>, rc |-> 0]
    ELSE [cmds |-> <<DeleteFailedPVRs>>, rc |-> IF r.retrying THEN 0 ELSE 1]

\* The test wait_for_restore makes on a Failed or PartiallyFailed restore
\* before it goes on to fix_pod_volume_restore_errors.
retryNeeded(checked) == checked.rc = 0

\* One pass of wait_for_restore's loop (the whole function with --wait).
wait_for_restore(r) ==
    /\ Running("velero-restore", "wait_for_restore")
    /\ LET status  == ToUpper(r.phase)
           checked == check_pod_volume_restore_errors(r)
           fixed   == fix_pod_volume_restore_errors(r)
           failure == [Fail(ExitWith(1, <<>>), "Restore failed or partially failed")
                          EXCEPT !.restore = r]
           sleep   == [sh EXCEPT !.elapsed = @ + interval]
       IN sh' =
          IF sh.WAIT_FOR_COMPLETION THEN Step("wait_for_pods", <<>>)
          ELSE IF ~(sh.elapsed < max_wait)
          THEN [Fail(ExitWith(1, <<>>), "Restore timed out") EXCEPT !.restore = r]
          ELSE CASE status = "COMPLETED" ->
                      Say(Step("wait_for_pods", <<>>), "Restore completed")
                 [] status \in {"FAILED", "PARTIALLYFAILED"} ->
                      IF sh.RESTORE_VOLUMES /\ sh.retry_count < max_retries
                      THEN IF retryNeeded(checked)
                           THEN IF fixed.rc = 0
                                THEN [sh EXCEPT !.retry_count = @ + 1,
                                                !.done = @ \o checked.cmds \o fixed.cmds]
                                ELSE [failure EXCEPT !.done = @ \o checked.cmds \o fixed.cmds]
                           ELSE [failure EXCEPT !.done = @ \o checked.cmds]
                      ELSE failure
                 [] status \in {"INPROGRESS", "NEW"} ->
                      IF sh.RESTORE_VOLUMES /\ sh.elapsed % 60 = 0 /\ sh.elapsed > 0
                      THEN [sleep EXCEPT !.done = @ \o checked.cmds]
                      ELSE sleep
                 [] OTHER -> sleep
    /\ UNCHANGED apiVars

\* kubectl get namespace and kubectl wait only; a pod that is not ready is a
\* warning.
wait_for_pods ==
    /\ Running("velero-restore", "wait_for_pods")
    /\ sh' = Say(Step("verify_restore", <<>>), "Pods are starting up")
    /\ UNCHANGED apiVars

velero_verify_restore(described, r) ==
    /\ Running("velero-restore", "verify_restore")
    /\ sh' = IF ~described
             THEN Fail(ExitWith(1, <<>>), "Failed to get restore details")
             ELSE IF r.phase # "Completed"
             THEN [Fail(ExitWith(1, <<>>), "Restore did not complete successfully")
                      EXCEPT !.restore = r]
             ELSE Say(Step("show_summary", <<>>), "Restore verified")
    /\ UNCHANGED apiVars

velero_show_summary ==
    /\ Running("velero-restore", "show_summary")
    /\ sh' = ExitWith(0, <<>>)
    /\ UNCHANGED apiVars

\* ----------------------------------------------------------- environment

\* Someone registers or removes a type definition in the cluster.
MaxCatalog == 4

CatalogAdd(crd) ==
    /\ CatalogFind(crd.Name) = {}
    /\ Cardinality(catalog) < MaxCatalog
    /\ catalog' = catalog \cup {crd}
    /\ UNCHANGED <<store, pc, cur, req, res, calls, sh>>

CatalogRemove(crd) ==
    /\ crd \in catalog
    /\ catalog' = catalog \ {crd}
    /\ UNCHANGED <<store, pc, cur, req, res, calls, sh>>

\* Someone replaces a registered definition by another of the same name.
CatalogUpdate(crd, new) ==
    /\ crd \in catalog
    /\ new.Name = crd.Name /\ new # crd
    /\ catalog' = (catalog \ {crd}) \cup {new}
    /\ UNCHANGED <<store, pc, cur, req, res, calls, sh>>

\* --------------------------------------------------------------- inputs

Faults == {"", "Unavailable"}
PatchFaults == {"", "Unavailable", "Conflict"}

Specs == 1..MaxSpec

InvalidJSON ==
    [syntax |-> "invalid", kind |-> Missing, apiVersion |-> Missing,
     hasMetadata |-> FALSE, name |-> Missing, namespace |-> Missing, spec |-> 1]

Doc(kind, apiVersion, hasMetadata, name, namespace, spec) ==
    [syntax |-> "object", kind |-> kind, apiVersion |-> apiVersion,
     hasMetadata |-> hasMetadata, name |-> name, namespace |-> namespace, spec |-> spec]

APIVersions ==
    { <<>>, <<"/">>, <<"v1">>, TenantAPIVersion, <<openchoreoGroup, "/", "v1">>,
      <<"other.example", "/", "v1">>, <<openchoreoGroup, "/", "v1", "/", "x">> }

KindFields == {Str("Widget"), Str("Organization"), Str(""), Missing, NonString}
APIVersionFields == {Str(a) : a \in APIVersions} \cup {Missing, NonString}
NameFields == {Str("w1"), Str(""), Missing, NonString}
NamespaceFields == {Missing, Str(""), Str("default"), Str("ns1")}

\* Every document a caller may send.
AllDocs ==
    {InvalidJSON}
    \cup {Doc(k, a, TRUE, n, ns, s) : k \in KindFields, a \in APIVersionFields,
                                      n \in NameFields, ns \in NamespaceFields, s \in Specs}
    \cup {Doc(k, a, FALSE, Missing, Missing, s) : k \in KindFields,
                                      a \in APIVersionFields, s \in Specs}

AllNamespaces == {"", "default", "ns1"}

\* The well-formed documents and the coordinates of the sequential caller.
SeqDocs ==
    {Doc(Str(k), Str(TenantAPIVersion), TRUE, Str("w1"), ns, s) :
        k \in {"Widget", "Organization"},
        ns \in {Missing, Str("default"), Str("ns1")}, s \in Specs}

SeqCoords ==
    {Coords(k, "w1", ns) : k \in {"Widget", "Organization"}, ns \in AllNamespaces}
    \cup {Coords("", "w1", "default"), Coords("Widget", "", "default"), Coords("", "", "")}

SeqListArgs ==
    {Coords(k, "", ns) : k \in {"Widget", "Organization"}, ns \in AllNamespaces}
    \cup {Coords("", "", "default")}

\* The coordinates of the caller that reads, lists and deletes beside the
\* caller sending any document.
InputCoords ==
    {Coords("Widget", "w1", "default"), Coords("", "w1", "default"),
     Coords("Widget", "", "default")}

InputListArgs == {Coords("Widget", "", ""), Coords("", "", "default")}

\* The documents and coordinates of the concurrent callers.
ConcDocs ==
    {Doc(Str("Widget"), Str(TenantAPIVersion), TRUE, Str("w1"), ns, 1) :
        ns \in {Missing, Str("ns1")}}
ConcNamespaces == {"default", "ns1"}

\* The registry names a caller may ask GetCRD for.
CRDNames == {crd.Name : crd \in CRDUniverse} \cup {"missing.openchoreo.dev"}

\* The schemas a registered version may carry.  A leaf has no nested schema:
\* nothing set, one field set (a bound also with the value 0, an
\* additionalProperties also in its boolean form), or every field set.  The
\* store accepts items only as a single schema, never as a list of schemas.
StringFields == {"Type", "Description", "Format", "Title", "Pattern"}
BoundFields == {"MinLength", "MaxLength", "Minimum", "Maximum", "MinItems", "MaxItems"}

FullSchema ==
    [Type |-> "string", Description |-> "text", Format |-> "date", Title |-> "t",
     Default |-> Ptr("d"), Example |-> Ptr("e"), Enum |-> <<"a", "b">>,
     Required |-> <<"tags">>, Properties |-> EmptyMap, Items |-> Nil,
     AdditionalProperties |-> Nil, MinLength |-> Ptr(0), MaxLength |-> Ptr(1),
     Pattern |-> "p", Minimum |-> Ptr(0), Maximum |-> Ptr(1),
     MinItems |-> Ptr(0), MaxItems |-> Ptr(1), UniqueItems |-> TRUE, Nullable |-> TRUE]

SchemaLeaves ==
    {JSONSchemaProps, FullSchema, StringSchema, ObjectSchema}
    \cup {[JSONSchemaProps EXCEPT ![f] = "x"] : f \in StringFields}
    \cup {[JSONSchemaProps EXCEPT ![f] = Ptr(n)] : f \in BoundFields, n \in {0, 1}}
    \cup {[JSONSchemaProps EXCEPT !.Default = Ptr("d")],
          [JSONSchemaProps EXCEPT !.Example = Ptr("e")],
          [JSONSchemaProps EXCEPT !.Enum = <<"a">>],
          [JSONSchemaProps EXCEPT !.Required = <<"tags">>],
          [JSONSchemaProps EXCEPT !.UniqueItems = TRUE],
          [JSONSchemaProps EXCEPT !.Nullable = TRUE],
          [ObjectSchema EXCEPT !.AdditionalProperties =
              Ptr([Allows |-> TRUE, Schema |-> Nil])]}

WithProperty(base, name, child) ==
    [base EXCEPT !.Properties = Put(@, name, child)]
WithItems(base, child) ==
    [base EXCEPT !.Items = Ptr([Schema |-> Ptr(child)])]
WithAdditionalProperties(base, child) ==
    [base EXCEPT !.AdditionalProperties = Ptr([Allows |-> TRUE, Schema |-> Ptr(child)])]

\* Nesting depth of the schemas drawn.
MaxDepth == 2

RECURSIVE SchemaNodes(_)
SchemaNodes(depth) ==
    IF depth = 0 THEN SchemaLeaves
    ELSE LET children == SchemaNodes(depth - 1) IN
         SchemaLeaves
         \cup {WithProperty(ObjectSchema, "tags", c) : c \in children}
         \cup {WithProperty(WithProperty(ObjectSchema, "name", l), "tags", c) :
                  c \in children, l \in {JSONSchemaProps, StringSchema}}
         \cup {WithItems([JSONSchemaProps EXCEPT !.Type = "array"], c) : c \in children}
         \cup {WithAdditionalProperties(ObjectSchema, c) : c \in children}
         \cup {WithProperty(WithItems(FullSchema, c), "tags", c) : c \in children}

\* A tenant type whose storage version carries the schema.
SchemaCRD(schema) ==
    CRD("widgets.openchoreo.dev", openchoreoGroup, "Widget", "widgets", "widget",
        "Namespaced", <<VersionWithSchema("v1", TRUE, schema)>>)

\* The definitions of the cluster whose catalog changes under a reader: the
\* Widget type, the same type with its storage version moved, and a type of
\* another group.
LiveCRDs ==
    { CRD("widgets.openchoreo.dev", openchoreoGroup, "Widget", "widgets", "widget",
          "Namespaced", <<VersionWithSchema("v1alpha1", TRUE, StringSchema),
                          VersionWithSchema("v1", FALSE, TagsSchema)>>),
      CRD("widgets.openchoreo.dev", openchoreoGroup, "Widget", "widgets", "widget",
          "Namespaced", <<VersionWithSchema("v1alpha1", FALSE, StringSchema),
                          VersionWithSchema("v1", TRUE, TagsSchema)>>),
      CRD("widgets.other.example", "other.example", "Widget", "widgets", "widget",
          "Namespaced", <<VersionWithSchema("v1", TRUE, TagsSchema)>>) }

\* The documents the writer beside the reader applies.
LiveDocs ==
    {Doc(Str("Widget"), Str(TenantAPIVersion), TRUE, Str("w1"), Str(ns), s) :
        ns \in {"default", "ns1"}, s \in Specs}

\* An object of another group that the cluster holds.
ForeignObject ==
    [group |-> "other.example", kind |-> "Widget", namespace |-> "default",
     name |-> "w1", spec |-> 1,
     labels |-> NoLabels, creationTimestamp |-> CreatedTime, status |-> Missing]

\* Instances a cluster may hold beside it: with and without labels, a
\* creation timestamp and a status, in two namespaces and of two kinds.
MaxInstances == 3

Instance(kind, namespace, name, labels, created, status) ==
    [group |-> openchoreoGroup, kind |-> kind, namespace |-> namespace,
     name |-> name, spec |-> 1,
     labels |-> labels, creationTimestamp |-> created, status |-> status]

ListObjects ==
    { Instance("Widget", "default", "w1", [k \in {"app"} |-> "web"], CreatedTime,
               StatusObject([k \in {"phase"} |-> "Ready"])),
      Instance("Widget", "default", "w2", NoLabels, ZeroTime, Missing),
      Instance("Widget", "ns1", "w1", [k \in {"app", "tier"} |-> "web"],
               Time(<<2025, 11, 30>>, <<23, 59, 59>>), StatusObject(NoLabels)),
      Instance("Gadget", "ns1", "g1", NoLabels, CreatedTime, Missing),
      ForeignObject }

ListStores == {S \in SUBSET ListObjects : Cardinality(S) <= MaxInstances}

ListKinds == {"Widget", "Gadget", ""}
ListNamespaces == {"", "default", "ns1", "ns2"}

\* What a backup directory can hold, and the options of a data restore run.
MaxVolumes == 2

VolumeNames == <<"registry-data", "argo-data", "cache-data", "scratch-data">>

PVCNames == { <<VolumeNames[i]>> : i \in 1..MaxVolumes }

\* build-plane/volumes/*.tar.gz
VolumeFiles(k) == [i \in 1..k |-> <<VolumeNames[i]>>]

\* observability-plane/volumes/*.tar.gz: opensearch-* and prometheus-* files.
ObservabilityFiles(k) ==
    [i \in 1..k |-> <<IF i = 1 THEN "opensearch" ELSE "prometheus", VolumeNames[i]>>]

NamespaceDir(ns, files, volumes) == [ns |-> ns, files |-> files, volumes |-> volumes]

DataPlaneFiles ==
    { {}, {"namespaces.yaml"}, {"routes.yaml", "gateway-config.yaml"},
      {"namespaces.yaml", "dataplane-resources.yaml", "routes.yaml", "gateway-config.yaml"} }

UserWorkloads ==
    { Nil, Ptr(<<>>),
      Ptr(<<NamespaceDir("team-a", {"resources.yaml", "secrets.yaml"}, Nil)>>),
      Ptr(<<NamespaceDir("team-a", {"resources.yaml", "pvcs.yaml"}, Ptr(VolumeFiles(1))),
            NamespaceDir("team-b", {"secrets.yaml"}, Nil)>>) }

BuildPlanes ==
    { Nil, Ptr([files |-> {}, volumes |-> Nil]),
      Ptr([files |-> {"buildplane-resources.yaml", "workflows.yaml"}, volumes |-> Nil]) }
    \cup { Ptr([files |-> {"workflows.yaml"}, volumes |-> Ptr(VolumeFiles(k))])
           : k \in 0..MaxVolumes }

ObservabilityPlanes ==
    { Nil, Ptr([volumes |-> Nil]) }
    \cup { Ptr([volumes |-> Ptr(ObservabilityFiles(k))]) : k \in 1..MaxVolumes }

Backup(isDir, metadata, cp, dp, uw, bp, op) ==
    [isDir |-> isDir, metadata |-> metadata, openchoreoResources |-> cp,
     dataPlane |-> dp, userWorkloads |-> uw, buildPlane |-> bp,
     observabilityPlane |-> op]

Backups ==
    { Backup(FALSE, FALSE, FALSE, {}, Nil, Nil, Nil),
      Backup(TRUE, FALSE, FALSE, {}, Nil, Nil, Nil) }
    \cup { Backup(TRUE, TRUE, cp, dp, uw, bp, op) :
             cp \in BOOLEAN, dp \in DataPlaneFiles, uw \in UserWorkloads,
             bp \in BuildPlanes, op \in ObservabilityPlanes }

\* The state parse_args leaves: the script's options and its backup directory.
RestoreData(dir, skipVolumes, force, dryRun, backup) ==
    [script |-> "restore-data", pc |-> "validate_backup",
     BACKUP_DIR |-> dir, SKIP_VOLUMES |-> skipVolumes, FORCE |-> force,
     DRY_RUN |-> dryRun, backup |-> backup, done |-> <<>>, status |-> -1]

RestoreDataRuns ==
    { RestoreData(dir, skip, force, dry, b) :
        dir \in {"", "/backups/latest"}, skip \in BOOLEAN, force \in BOOLEAN,
        dry \in BOOLEAN, b \in Backups }

\* The state parse_args leaves in the Velero restore script.
VeleroRestore(backup, name, password, volumes, wait, dryRun, force, mappings) ==
    [script |-> "velero-restore", pc |-> "validate_prerequisites",
     CLUSTER_NAME |-> "openchoreo", BACKUP_NAME |-> backup, RESTORE_NAME |-> name,
     REPO_PASSWORD |-> password, RESTORE_VOLUMES |-> volumes,
     WAIT_FOR_COMPLETION |-> wait, DRY_RUN |-> dryRun, FORCE |-> force,
     NAMESPACE_MAPPINGS |-> mappings, done |-> <<>>, said |-> "", error |-> "",
     retry_count |-> 0, elapsed |-> 0, restore |-> Restore("", FALSE, FALSE, FALSE),
     status |-> -1]

\* REPO_PASSWORD is never empty: "${REPO_PASSWORD:-static-passw0rd}".
RepoPasswords == {"static-passw0rd", "s3cret"}

VeleroRestoreRuns ==
    { VeleroRestore(b, n, p, v, w, d, f, m) :
        b \in {"", "openchoreo-20241201-120000"}, n \in {"", "restore-1"},
        p \in RepoPasswords, v \in BOOLEAN, w \in BOOLEAN, d \in BOOLEAN,
        f \in BOOLEAN, m \in {"", "old-ns:new-ns"} }

BackupPhases == {"Completed", "PartiallyFailed", "InProgress", "COMPLETED"}

\* What `velero restore describe` can report as the phase of a restore; ""
\* when the describe fails. Failed takes the branch of PartiallyFailed.
RestorePhases == {"Completed", "PartiallyFailed", "InProgress", ""}

\* Pod volume restores are retried by Velero only when failed ones exist.
Restores ==
    { Restore(ph, e, f, r) :
        ph \in RestorePhases, e \in BOOLEAN, f \in BOOLEAN, r \in BOOLEAN }
    \ { r \in [phase : RestorePhases, errors : BOOLEAN, failed : BOOLEAN,
                retrying : BOOLEAN] : r.retrying /\ (~r.failed \/ r.errors) }

\* The state create_restore leaves when the restore was created.
Created(volumes, wait) ==
    LET s == VeleroRestore("openchoreo-20241201-120000", "restore-1",
                           "static-passw0rd", volumes, wait, FALSE, TRUE, "")
    IN [s EXCEPT !.pc = "wait_for_restore",
                 !.said = "Restore started successfully",
                 !.done = << Cmd("docker cp", <<"local", <<"k3d", s.CLUSTER_NAME, "server-0">>>>),
                             Cmd("velero restore create", restore_args(s, s.RESTORE_NAME)) >>]

\* ------------------------------------------------------- specifications

Init ==
    /\ store = {ForeignObject}
    /\ catalog = {}
    /\ pc = [p \in Procs |-> "idle"]
    /\ cur = [p \in Procs |-> NoCur]
    /\ req = [p \in Procs |-> NoReq]
    /\ res = [p \in Procs |-> NoRes]
    /\ calls = [p \in Procs |-> <<>>]
    /\ sh = NoScript

\* Concurrent callers applying and deleting instances.
Next ==
    \E p \in Procs :
        \/ \E doc \in ConcDocs, f \in Faults : ApplyResourceFromJSON(p, doc, f)
        \/ \E f \in Faults : ApplyCreate(p, f)
        \/ \E f \in PatchFaults, ssa \in BOOLEAN : ApplyPatch(p, f, ssa)
        \/ \E ns \in ConcNamespaces, f \in Faults :
              DeleteResourceFromKind(p, "Widget", "w1", ns, f)

Spec == Init /\ [][Next]_vars

\* Concurrent callers applying, with the store reachable and nobody deleting.
NextApply ==
    \E p \in Procs :
        \/ \E doc \in ConcDocs : ApplyResourceFromJSON(p, doc, "")
        \/ ApplyCreate(p, "")
        \/ \E ssa \in BOOLEAN : ApplyPatch(p, "", ssa)

SpecApply == Init /\ [][NextApply]_vars

\* One caller, one call after the other.
NextSeq ==
    \/ \E doc \in SeqDocs, f \in Faults : ApplyResourceFromJSON("p1", doc, f)
    \/ \E f \in Faults : ApplyCreate("p1", f)
    \/ \E f \in PatchFaults, ssa \in BOOLEAN : ApplyPatch("p1", f, ssa)
    \/ \E c \in SeqCoords, f \in Faults :
          GetResourceFromKind("p1", c.kind, c.name, c.namespace, f)
    \/ \E c \in SeqCoords, f \in Faults :
          DeleteResourceFromKind("p1", c.kind, c.name, c.namespace, f)
    \/ \E c \in SeqListArgs, f \in Faults :
          ListResourcesFromKind("p1", c.kind, c.namespace, f)

SpecSeq == Init /\ [][NextSeq]_vars

\* One caller sending one document, any document, again and again, while
\* another reads, lists and deletes.
InitInput ==
    /\ store = {ForeignObject}
    /\ catalog = {}
    /\ pc = [p \in Procs |-> "idle"]
    /\ cur = [p \in Procs |-> NoCur]
    /\ req \in {[p \in Procs |-> IF p = "p1" THEN doc ELSE NoReq] : doc \in AllDocs}
    /\ res = [p \in Procs |-> NoRes]
    /\ calls = [p \in Procs |-> <<>>]
    /\ sh = NoScript

NextInput ==
    \/ \E f \in Faults : ApplyResourceFromJSON("p1", req["p1"], f)
    \/ \E f \in Faults : ApplyCreate("p1", f)
    \/ \E f \in PatchFaults, ssa \in BOOLEAN : ApplyPatch("p1", f, ssa)
    \/ \E c \in InputCoords, f \in Faults :
          GetResourceFromKind("p2", c.kind, c.name, c.namespace, f)
    \/ \E c \in InputCoords, f \in Faults :
          DeleteResourceFromKind("p2", c.kind, c.name, c.namespace, f)
    \/ \E c \in InputListArgs, f \in Faults :
          ListResourcesFromKind("p2", c.kind, c.namespace, f)

SpecInput == InitInput /\ [][NextInput]_vars

\* A caller listing the catalog while the cluster's definitions change.
NextCatalog ==
    \/ \E f \in Faults : ListCRDs("p1", f)
    \/ \E n \in CRDNames, f \in Faults : GetCRD("p1", n, f)
    \/ \E crd \in CRDUniverse : CatalogAdd(crd)
    \/ \E crd \in CRDUniverse : CatalogRemove(crd)

SpecCatalog == Init /\ [][NextCatalog]_vars

\* A caller listing the instances of a cluster that holds any of ListStores.
InitList ==
    /\ store \in ListStores
    /\ catalog = {}
    /\ pc = [p \in Procs |-> "idle"]
    /\ cur = [p \in Procs |-> NoCur]
    /\ req = [p \in Procs |-> NoReq]
    /\ res = [p \in Procs |-> NoRes]
    /\ calls = [p \in Procs |-> <<>>]
    /\ sh = NoScript

NextList ==
    \E kind \in ListKinds, ns \in ListNamespaces, f \in Faults :
        ListResourcesFromKind("p1", kind, ns, f)

SpecList == InitList /\ [][NextList]_vars

\* One caller listing the types and another getting the details of one, while
\* the cluster's definitions change.
TypeCRDs == {crd \in CRDUniverse : crd.Kind = "Widget"}

NextTypes ==
    \/ \E f \in Faults : ListCRDs("p1", f)
    \/ \E crd \in TypeCRDs, f \in Faults : GetCRD("p2", crd.Name, f)
    \/ \E crd \in TypeCRDs : CatalogAdd(crd)
    \/ \E crd \in TypeCRDs : CatalogRemove(crd)

SpecTypes == Init /\ [][NextTypes]_vars

\* A caller getting the details of a type whose schema is any of SchemaNodes.
InitSchema ==
    /\ store = {ForeignObject}
    /\ catalog \in {{SchemaCRD(schema)} : schema \in SchemaNodes(MaxDepth)}
    /\ pc = [p \in Procs |-> "idle"]
    /\ cur = [p \in Procs |-> NoCur]
    /\ req = [p \in Procs |-> NoReq]
    /\ res = [p \in Procs |-> NoRes]
    /\ calls = [p \in Procs |-> <<>>]
    /\ sh = NoScript

NextSchema == \E f \in Faults : GetCRD("p1", "widgets.openchoreo.dev", f)

SpecSchema == InitSchema /\ [][NextSchema]_vars

\* A caller reading instances and types while another caller writes instances
\* and the cluster's definitions change; the store answers every call.
NextLive ==
    \/ GetResourceFromKind("p1", "Widget", "w1", "default", "")
    \/ \E ns \in {"", "ns1"} : ListResourcesFromKind("p1", "Widget", ns, "")
    \/ ListCRDs("p1", "")
    \/ GetCRD("p1", "widgets.openchoreo.dev", "")
    \/ \E doc \in LiveDocs : ApplyResourceFromJSON("p2", doc, "")
    \/ ApplyCreate("p2", "")
    \/ \E ssa \in BOOLEAN : ApplyPatch("p2", "", ssa)
    \/ DeleteResourceFromKind("p2", "Widget", "w1", "default", "")
    \/ \E crd \in LiveCRDs : CatalogAdd(crd)
    \/ \E crd \in LiveCRDs : CatalogRemove(crd)
    \/ \E crd, new \in LiveCRDs : CatalogUpdate(crd, new)

SpecLive == Init /\ [][NextLive]_vars

\* One run of the data restore script, from parse_args to its exit.
InitRestore ==
    /\ store = {ForeignObject}
    /\ catalog = {}
    /\ pc = [p \in Procs |-> "idle"]
    /\ cur = [p \in Procs |-> NoCur]
    /\ req = [p \in Procs |-> NoReq]
    /\ res = [p \in Procs |-> NoRes]
    /\ calls = [p \in Procs |-> <<>>]
    /\ sh \in RestoreDataRuns

NextRestore ==
    \/ validate_backup
    \/ \E ok \in BOOLEAN : validate_prerequisites(ok)
    \/ \E reply \in {"yes", "no"} : confirm_restore(reply)
    \/ restore_openchoreo_resources
    \/ restore_user_workloads
    \/ \E pvcs \in [PVCNames -> PVCOutcomes] : restore_user_namespaces(pvcs)
    \/ \E pvcs \in [PVCNames -> PVCOutcomes] : restore_build_plane_data(pvcs)
    \/ \E pvcs \in [PVCNames -> PVCOutcomes] : restore_observability_data(pvcs)
    \/ \E listed \in BOOLEAN : verify_restore(listed)
    \/ show_summary

SpecRestore == InitRestore /\ [][NextRestore]_vars

\* One run of the Velero restore script, from parse_args to the creation of
\* the restore.
InitVelero ==
    /\ store = {ForeignObject}
    /\ catalog = {}
    /\ pc = [p \in Procs |-> "idle"]
    /\ cur = [p \in Procs |-> NoCur]
    /\ req = [p \in Procs |-> NoReq]
    /\ res = [p \in Procs |-> NoRes]
    /\ calls = [p \in Procs |-> <<>>]
    /\ sh \in VeleroRestoreRuns

NextVelero ==
    \/ \E ok \in BOOLEAN : velero_validate_prerequisites(ok)
    \/ \E file \in {Nil, Ptr("s3cret")} : load_repo_password(file)
    \/ \E pw \in RepoPasswords \cup {""}, applied \in BOOLEAN :
          ensure_repo_password(pw, applied)
    \/ \E onHost \in BOOLEAN, copied \in BOOLEAN, inNode \in BOOLEAN :
          import_backup(onHost, copied, inNode)
    \/ \E b \in {Nil} \cup {Ptr(ph) : ph \in BackupPhases}, described \in BOOLEAN :
          velero_validate_backup(b, described)
    \/ \E reply \in {"yes", "no"} : velero_confirm_restore(reply)
    \/ \E healthy \in BOOLEAN, existing \in BOOLEAN, reply \in {"yes", "no"} :
          pre_restore_checks(healthy, existing, reply)
    \/ \E described \in BOOLEAN, created \in BOOLEAN : create_restore(described, created)

SpecVelero == InitVelero /\ [][NextVelero]_vars

\* The Velero restore script from the creation of the restore to its exit.
InitWait ==
    /\ store = {ForeignObject}
    /\ catalog = {}
    /\ pc = [p \in Procs |-> "idle"]
    /\ cur = [p \in Procs |-> NoCur]
    /\ req = [p \in Procs |-> NoReq]
    /\ res = [p \in Procs |-> NoRes]
    /\ calls = [p \in Procs |-> <<>>]
    /\ sh \in { Created(v, w) : v \in BOOLEAN, w \in BOOLEAN }

NextWait ==
    \/ \E r \in Restores : wait_for_restore(r)
    \/ wait_for_pods
    \/ \E described \in BOOLEAN, r \in Restores : velero_verify_restore(described, r)
    \/ velero_show_summary

SpecWait == InitWait /\ [][NextWait]_vars

\* The same run with the script's steps always taken in the end.
FairWait == SpecWait /\ WF_vars(NextWait)

\* ----------------------------------------------------------------- claims

\* An apiVersion string whose group part is the tenant group: "openchoreo.dev/...".
HasTenantGroup(apiVersion) ==
    Len(apiVersion) >= 2 /\ apiVersion[1] = "openchoreo.dev" /\ apiVersion[2] = "/"

IsDoc(r) == "syntax" \in DOMAIN r /\ r.syntax = "object"

AppliedOK(p) == res[p].op = "apply" /\ res[p].err = NoErr

\* C1: ApplyResource of a document whose apiVersion is a string that does not
\* name the tenant group (a bare version included) issues nothing to the
\* store and returns an error, never "created" or "updated", whatever the
\* kind and the name.
C1_ForeignGroupRejected ==
    \A p \in Procs :
        (IsDoc(req[p]) /\ IsString(req[p].apiVersion)
                       /\ ~HasTenantGroup(req[p].apiVersion.s))
        => /\ pc[p] = "idle"
           /\ res[p].op = "apply" => (res[p].err # NoErr /\ res[p].out = NoOut)

C1_Witness ==
    /\ res["p1"].op = "apply"
    /\ req["p1"].apiVersion = Str(<<"v1">>)
    /\ req["p1"].kind = Str("Widget") /\ req["p1"].name = Str("w1")
    /\ res["p1"].err = ErrorfArgs(
          "only resources with 'openchoreo.dev' group are supported, got '%s'", <<"">>)

\* C2: every store call of ApplyResource, GetResource, DeleteResource and
\* ListResources addresses a type of the tenant group, and the objects of
\* other groups stay as they were.
C2_OnlyTenantGroupTouched ==
    /\ \A p \in Procs : \A i \in 1..Len(calls[p]) : calls[p][i].group = "openchoreo.dev"
    /\ {o \in store : o.group # "openchoreo.dev"} = {ForeignObject}

C2_Witness ==
    /\ Len(calls["p1"]) = 2 /\ calls["p1"][2].verb = "patch"
    /\ AppliedOK("p1")
    /\ Len(calls["p2"]) = 1 /\ calls["p2"][1].verb = "delete"
    /\ res["p2"].err = NoErr

\* The namespace a document carries: empty unless metadata.namespace is a string.
InputNamespace(doc) == IF IsString(doc.namespace) THEN doc.namespace.s ELSE ""

\* C3: the namespace after handleResourceNamespace is empty for a kind of the
\* cluster-scoped set, "default" for another kind sent without a namespace,
\* and the namespace sent otherwise; the store calls and the ApplyResult use
\* that namespace.
ScopedNamespace(doc) ==
    IF doc.kind.s \in clusterScopedKinds THEN ""
    ELSE IF InputNamespace(doc) = "" THEN "default"
    ELSE InputNamespace(doc)

C3_ScopePolicy ==
    \A p \in Procs :
        /\ pc[p] # "idle" =>
              /\ cur[p].obj.namespace = ScopedNamespace(req[p])
              /\ \A i \in 1..Len(calls[p]) : calls[p][i].namespace = ScopedNamespace(req[p])
        /\ AppliedOK(p) =>
              /\ res[p].out.namespace = ScopedNamespace(req[p])
              /\ \A i \in 1..Len(calls[p]) : calls[p][i].namespace = ScopedNamespace(req[p])

C3_Witness ==
    /\ AppliedOK("p1")
    /\ req["p1"].kind = Str("Organization") /\ req["p1"].namespace = Str("ns1")
    /\ res["p1"].out.namespace = ""
    /\ calls["p1"][2].verb = "create" /\ calls["p1"][2].namespace = ""

\* The objects the store holds at the coordinates of an ApplyResult.
StoredAt(objects, out) ==
    {o \in objects : /\ o.group = "openchoreo.dev" /\ o.kind = out.kind
                     /\ o.namespace = out.namespace /\ o.name = out.name}

\* A store call failed for a reason of the store's own (unreachable, conflict).
StoreFault(r) == r.err.cause \in {"Unavailable", "Conflict"}

\* C4: when a caller applies a document, gets "created", and applies the same
\* document again, the second call (its store calls answered) returns
\* "updated" with the same apiVersion, kind, name and namespace, and the store
\* holds exactly one object at those coordinates.
C4_SecondApplyUpdates ==
    [][\A p \in Procs :
         (/\ pc[p] \in {"create", "patch"}
          /\ cur[p].created # NoOut
          /\ pc'[p] = "idle"
          /\ ~StoreFault(res'[p]))
         => /\ res'[p].err = NoErr
            /\ res'[p].out = [cur[p].created EXCEPT !.operation = "updated"]
            /\ Cardinality(StoredAt(store', cur[p].created)) = 1]_vars

C4_Witness ==
    /\ pc["p1"] = "patch"
    /\ cur["p1"].created # NoOut
    /\ cur["p1"].created.operation = "created"
    /\ Cardinality(StoredAt(store, cur["p1"].created)) = 1

\* C5: with the store reachable and nobody deleting, every one of several
\* concurrent ApplyResource calls on the same coordinates returns "created"
\* or "updated", none an error, and the object exists once all have returned.
C5_ConcurrentAppliesAllSucceed ==
    /\ \A p \in Procs :
          res[p].op = "apply" =>
              /\ res[p].err = NoErr
              /\ res[p].out.operation \in {"created", "updated"}
    /\ (\A p \in Procs : res[p].op = "apply")
          => \A p \in Procs : StoredAt(store, res[p].out) # {}

\* C6: after a successful ApplyResource of a document with kind K, name N and
\* namespace NS as sent, GetResource(K, N, NS) finds the object and
\* DeleteResource(K, N, NS) removes it (the store answering).
C6_SameInputNamespaceAddressesObject ==
    [][\A p \in Procs :
         (/\ AppliedOK(p)
          /\ res'[p].op \in {"get", "delete"}
          /\ req'[p] = Coords(req[p].kind.s, req[p].name.s, InputNamespace(req[p]))
          /\ res'[p].err.cause # "Unavailable")
         => /\ res'[p].err = NoErr
            /\ res'[p].op = "get" =>
                  /\ res'[p].out.name = res[p].out.name
                  /\ res'[p].out.namespace = res[p].out.namespace
            /\ res'[p].op = "delete" => StoredAt(store', res[p].out) = {}]_vars

\* C7: a successful ListResources reports as totalCount the number of its
\* items.
C7_TotalCountIsLenItems ==
    \A p \in Procs :
        (res[p].op = "list" /\ res[p].err = NoErr)
        => res[p].out.totalCount = Len(res[p].out.items)

C7_Witness ==
    /\ res["p1"].op = "list" /\ res["p1"].err = NoErr
    /\ Len(res["p1"].out.items) = 2
    /\ res["p1"].out.totalCount = 2

\* The tenant-group entries of a catalog.
TenantEntries(entries) == {c \in entries : c.Group = "openchoreo.dev"}

ListedCRDs(p) == res[p].op = "listcrds" /\ res[p].err = NoErr

\* C8: ListCRDs returns one summary for each tenant-group entry of the catalog
\* it listed and none for another entry.
C8_ExactlyTenantEntries ==
    \A p \in Procs :
        ListedCRDs(p) =>
          LET crds == res[p].out.crds
              mine == TenantEntries(req[p].catalog)
          IN  /\ \A i \in 1..Len(crds) : crds[i].Group = "openchoreo.dev"
              /\ Len(crds) = Cardinality(mine)
              /\ \A c \in mine :
                    Cardinality({i \in 1..Len(crds) :
                                    /\ crds[i].Kind = c.Kind
                                    /\ crds[i].Plural = c.Plural
                                    /\ crds[i].Singular = c.Singular}) = 1

C8_Witness ==
    /\ ListedCRDs("p1")
    /\ Cardinality(TenantEntries(req["p1"].catalog)) = 2
    /\ Cardinality(req["p1"].catalog) = 3
    /\ Len(res["p1"].out.crds) = 2

\* C9: the list ListCRDs returns is in non-decreasing order of kind.
C9_SortedByKind ==
    \A p \in Procs :
        ListedCRDs(p) =>
          \A i \in 1..(Len(res[p].out.crds) - 1) :
              ~StringLess(KindBytes(res[p].out.crds[i + 1].Kind),
                          KindBytes(res[p].out.crds[i].Kind))

C9_Witness ==
    /\ ListedCRDs("p1")
    /\ Len(res["p1"].out.crds) = 3
    /\ res["p1"].out.crds[1].Kind = "Organization"
    /\ res["p1"].out.crds[2].Kind = "Widget"
    /\ res["p1"].out.crds[3].Kind = "WidgetClass"

\* C10: two ListCRDs calls that list the same set of catalog entries return
\* the same sequence of summaries.
C10_SameCatalogSameList ==
    [][\A p \in Procs :
         (/\ ListedCRDs(p)
          /\ res'[p].op = "listcrds" /\ res'[p].err = NoErr
          /\ req'[p].catalog = req[p].catalog)
         => res'[p].out.crds = res[p].out.crds]_vars

GotCRD(p) == res[p].op = "getcrd" /\ res[p].err = NoErr

\* The catalog entries a GetCRD call asked for.
AskedEntries(p) == {c \in req[p].catalog : c.Name = req[p].crdName}

\* The version the selection rule names: the first declared version flagged
\* storage, else the first declared version, else none.
FlaggedVersions(versions) == {i \in 1..Len(versions) : versions[i].Storage}

ReportedVersion(versions) ==
    IF Len(versions) = 0 THEN ""
    ELSE IF FlaggedVersions(versions) # {}
    THEN versions[CHOOSE i \in FlaggedVersions(versions) :
                     \A j \in FlaggedVersions(versions) : i <= j].Name
    ELSE versions[1].Name

\* C11: ListCRDs and GetCRD report, for a type, the first declared version
\* flagged storage, else the first declared version; for a type without
\* versions they report the empty version, GetCRD with no schema and no error.
C11_StorageVersionSelection ==
    \A p \in Procs :
        /\ ListedCRDs(p) =>
              \A i \in 1..Len(res[p].out.crds) :
                 \A c \in TenantEntries(req[p].catalog) :
                    res[p].out.crds[i].Plural = c.Plural
                    => res[p].out.crds[i].Version = ReportedVersion(c.Versions)
        /\ GotCRD(p) =>
              \A c \in AskedEntries(p) :
                 /\ res[p].out.Version = ReportedVersion(c.Versions)
                 /\ Len(c.Versions) = 0 => res[p].out.Schema = Nil
        /\ (res[p].op = "getcrd" /\ ~StoreFault(res[p])) =>
              \A c \in TenantEntries(AskedEntries(p)) :
                 Len(c.Versions) = 0 => res[p].err = NoErr

C11_Witness ==
    /\ GotCRD("p1")
    /\ req["p1"].crdName = "widgetclasses.openchoreo.dev"
    /\ res["p1"].out.Version = "v1beta1"

C11_WitnessNoVersions ==
    /\ GotCRD("p1")
    /\ req["p1"].crdName = "gadgets.openchoreo.dev"
    /\ res["p1"].out.Version = "" /\ res["p1"].out.Schema = Nil

\* C12: GetCRD on a catalog entry of another group returns an error and no
\* details.
C12_ForeignTypeNotDisclosed ==
    \A p \in Procs :
        (res[p].op = "getcrd" /\ \E c \in AskedEntries(p) : c.Group # "openchoreo.dev")
        => res[p].err # NoErr /\ res[p].out = NoOut

C12_Witness ==
    /\ res["p1"].op = "getcrd"
    /\ req["p1"].crdName = "widgets.other.example"
    /\ \E c \in AskedEntries("p1") : c.Group = "other.example"
    /\ res["p1"].err = ErrorfArgs("CRD %s is not an OpenChoreo CRD",
                                  <<"widgets.other.example">>)

\* The 19 keys of a flattened schema node and the field each comes from.
SchemaKeys ==
    {"type", "description", "format", "title", "default", "example", "enum",
     "required", "properties", "items", "additionalProperties", "minLength",
     "maxLength", "pattern", "minimum", "maximum", "minItems", "maxItems",
     "uniqueItems"}

FieldOf(key) ==
    CASE key = "type" -> "Type" [] key = "description" -> "Description"
      [] key = "format" -> "Format" [] key = "title" -> "Title"
      [] key = "default" -> "Default" [] key = "example" -> "Example"
      [] key = "enum" -> "Enum" [] key = "required" -> "Required"
      [] key = "properties" -> "Properties" [] key = "items" -> "Items"
      [] key = "additionalProperties" -> "AdditionalProperties"
      [] key = "minLength" -> "MinLength" [] key = "maxLength" -> "MaxLength"
      [] key = "pattern" -> "Pattern" [] key = "minimum" -> "Minimum"
      [] key = "maximum" -> "Maximum" [] key = "minItems" -> "MinItems"
      [] key = "maxItems" -> "MaxItems" [] key = "uniqueItems" -> "UniqueItems"

StringKeys == {"type", "description", "format", "title", "pattern"}
BoundKeys == {"minLength", "maxLength", "minimum", "maximum", "minItems", "maxItems"}
NestedKeys == {"properties", "items", "additionalProperties"}

\* A nested schema is given: the pointer is set and carries a schema.
CarriesSchema(p) == p.ptr = "set" /\ p.v.Schema.ptr = "set"

\* The field of a key is present: a non-empty string, a non-nil pointer, a
\* non-empty collection, a true boolean.  With bySchema, items and
\* additionalProperties count as present only when they carry a schema.
FieldPresent(node, key, bySchema) ==
    CASE key \in StringKeys -> node[FieldOf(key)] # ""
      [] key \in {"enum", "required"} -> Len(node[FieldOf(key)]) > 0
      [] key = "properties" -> DOMAIN node.Properties # {}
      [] key = "uniqueItems" -> node.UniqueItems
      [] key \in {"items", "additionalProperties"} ->
            IF bySchema THEN CarriesSchema(node[FieldOf(key)])
            ELSE node[FieldOf(key)].ptr = "set"
      [] OTHER -> node[FieldOf(key)].ptr = "set"

\* The value a present field has in the flattened map (nested ones apart).
FieldValue(node, key) ==
    IF key \in BoundKeys THEN node[FieldOf(key)].v ELSE node[FieldOf(key)]

\* Every node of the tree has exactly the keys of its present fields, with
\* their values.
RECURSIVE OmitsAbsentFields(_, _, _)
OmitsAbsentFields(node, flat, bySchema) ==
    /\ DOMAIN flat = {key \in SchemaKeys : FieldPresent(node, key, bySchema)}
    /\ \A key \in DOMAIN flat \ NestedKeys : flat[key] = FieldValue(node, key)
    /\ "properties" \in DOMAIN flat =>
          /\ DOMAIN flat["properties"] = DOMAIN node.Properties
          /\ \A name \in DOMAIN node.Properties :
                OmitsAbsentFields(node.Properties[name], flat["properties"][name], bySchema)
    /\ ("items" \in DOMAIN flat /\ CarriesSchema(node.Items)) =>
          OmitsAbsentFields(node.Items.v.Schema.v, flat["items"], bySchema)
    /\ ("additionalProperties" \in DOMAIN flat /\ CarriesSchema(node.AdditionalProperties)) =>
          OmitsAbsentFields(node.AdditionalProperties.v.Schema.v,
                            flat["additionalProperties"], bySchema)

\* The schema a successful GetCRD flattened.
FlattenedSchema(p) == GotCRD(p) /\ res[p].out.Schema # Nil

InputSchema(p) ==
    (CHOOSE c \in AskedEntries(p) : TRUE).Versions[1].Schema.v.OpenAPIV3Schema.v

\* C13 as stated: a key appears in the flattened map of a node iff the node's
\* field is present (non-empty string, non-nil pointer, non-empty collection,
\* true boolean), with the field's value, and no other key appears.
C13_KeyIffFieldPresent ==
    \A p \in Procs :
        FlattenedSchema(p) => OmitsAbsentFields(InputSchema(p), res[p].out.Schema.v, FALSE)

\* C13 amended: as stated, except that items and additionalProperties appear
\* iff the field carries a schema (its pointer and its Schema are both set).
C13_KeyIffFieldPresentOrSchema ==
    \A p \in Procs :
        FlattenedSchema(p) => OmitsAbsentFields(InputSchema(p), res[p].out.Schema.v, TRUE)

C13_Witness ==
    /\ FlattenedSchema("p1")
    /\ InputSchema("p1") = [JSONSchemaProps EXCEPT !.MinLength = Ptr(0)]
    /\ DOMAIN res["p1"].out.Schema.v = {"minLength"}
    /\ res["p1"].out.Schema.v["minLength"] = 0

C13_WitnessTypeOnly ==
    /\ FlattenedSchema("p1")
    /\ InputSchema("p1") = StringSchema
    /\ DOMAIN res["p1"].out.Schema.v = {"type"}

\* The nested structure of a node is kept: properties key by key, items and
\* additionalProperties as one nested node each, an empty child as an empty
\* map, the type of every node carried along.
RECURSIVE StructurePreserved(_, _)
StructurePreserved(node, flat) ==
    /\ DOMAIN flat \subseteq SchemaKeys
    /\ node.Type # "" => ("type" \in DOMAIN flat /\ flat["type"] = node.Type)
    /\ node = JSONSchemaProps => DOMAIN flat = {}
    /\ DOMAIN node.Properties # {} =>
          /\ "properties" \in DOMAIN flat
          /\ DOMAIN flat["properties"] = DOMAIN node.Properties
          /\ \A name \in DOMAIN node.Properties :
                StructurePreserved(node.Properties[name], flat["properties"][name])
    /\ CarriesSchema(node.Items) =>
          /\ "items" \in DOMAIN flat
          /\ StructurePreserved(node.Items.v.Schema.v, flat["items"])
    /\ CarriesSchema(node.AdditionalProperties) =>
          /\ "additionalProperties" \in DOMAIN flat
          /\ StructurePreserved(node.AdditionalProperties.v.Schema.v,
                                flat["additionalProperties"])

FlatTagsSchema ==
    [type |-> "object",
     properties |-> [tags |-> [type |-> "array", items |-> [type |-> "string"]]]]

\* C14: the flattened properties have the key set of the node's properties
\* and each value is the flattening of the child; items and
\* additionalProperties with a schema are one nested node each; the example
\* {type: object, properties: {tags: {type: array, items: {type: string}}}}
\* flattens to itself.
C14_StructurePreserved ==
    \A p \in Procs :
        FlattenedSchema(p) =>
            /\ StructurePreserved(InputSchema(p), res[p].out.Schema.v)
            /\ InputSchema(p) = TagsSchema => res[p].out.Schema.v = FlatTagsSchema

C14_Witness ==
    /\ FlattenedSchema("p1")
    /\ InputSchema("p1") = TagsSchema
    /\ res["p1"].out.Schema.v = FlatTagsSchema

\* The store calls of p's last call that the store answered with an error;
\* the not-found of ApplyResource's existence check is not one, it is the
\* answer that makes the call create.
FailedCalls(p) ==
    {i \in 1..Len(calls[p]) :
        /\ calls[p][i].err # ""
        /\ ~(res[p].op = "apply" /\ calls[p][i].verb = "get"
                                 /\ calls[p][i].err = "NotFound")}

\* The coordinates a call addressed the store with.
Coordinates(p) == {calls[p][1].kind, calls[p][1].name, calls[p][1].namespace} \ {""}

\* The values an error value was formatted with.
ErrorArgs(err) == {err.args[i] : i \in 1..Len(err.args)}

ResourceOps == {"apply", "get", "delete", "list"}

Returned(p) == pc[p] = "idle" /\ res[p].op \in ResourceOps

\* A failed store call is returned as an error that wraps the store's error.
StoreErrorsWrapped ==
    \A p \in Procs :
        (Returned(p) /\ FailedCalls(p) # {})
        => /\ res[p].err # NoErr /\ res[p].out = NoOut
           /\ res[p].err.cause = calls[p][Len(calls[p])].err

\* C15: when a store call of ApplyResource, GetResource, DeleteResource or
\* ListResources fails, the call returns an error, never a result; the error
\* wraps the store's error and carries the kind, name and namespace of the
\* operation.
C15_StoreErrorsCarryCoordinates ==
    /\ StoreErrorsWrapped
    /\ \A p \in Procs :
          (Returned(p) /\ FailedCalls(p) # {})
          => Coordinates(p) \subseteq ErrorArgs(res[p].err)

\* C16: a call of ApplyResource issues at most one Get and then at most one
\* of Create and Patch; a call of GetResource, DeleteResource or
\* ListResources issues at most one store call; no store call follows one
\* that failed (the not-found of the existence check is followed by the one
\* Create).
C16_NoRetries ==
    \A p \in Procs :
        LET c == calls[p] IN
        /\ Len(c) <= 2
        /\ Len(c) >= 1 =>
              c[1].verb \in {"get", "delete", "list"}
        /\ Len(c) = 2 =>
              /\ c[1].verb = "get"
              /\ c[2].verb \in {"create", "patch"}
              /\ c[1].err = "NotFound" => c[2].verb = "create"
              /\ c[1].err = "" => c[2].verb = "patch"
              /\ c[1].err \in {"", "NotFound"}
        /\ res[p].op \in {"get", "delete", "list"} => Len(c) <= 1
        /\ pc[p] # "idle" => (Len(c) = 1 /\ c[1].err \in {"", "NotFound"})

C16_Witness ==
    /\ pc["p1"] = "idle" /\ res["p1"].op = "apply"
    /\ Len(calls["p1"]) = 2
    /\ calls["p1"][2].verb = "patch" /\ calls["p1"][2].err = "Conflict"
    /\ res["p1"].err = Wrap("failed to apply resource", "Conflict")

\* The input of a call is invalid: a payload that is not a JSON object, a
\* kind, apiVersion or metadata.name that is missing, empty or not a string,
\* an apiVersion with more than one "/", a group other than the tenant group;
\* for GetResource and DeleteResource an empty kind or name, for
\* ListResources an empty kind.
EmptyOrNoString(v) == v.t # "string" \/ v.s = ""

InvalidDocument(doc) ==
    \/ doc.syntax # "object"
    \/ EmptyOrNoString(doc.kind)
    \/ doc.apiVersion.t # "string" \/ Len(doc.apiVersion.s) = 0
    \/ Cardinality({i \in 1..Len(doc.apiVersion.s) : doc.apiVersion.s[i] = "/"}) > 1
    \/ ~HasTenantGroup(doc.apiVersion.s)
    \/ ~doc.hasMetadata
    \/ EmptyOrNoString(doc.name)

InvalidInput(op, r) ==
    CASE op = "apply" -> InvalidDocument(r)
      [] op \in {"get", "delete"} -> r.kind = "" \/ r.name = ""
      [] op = "list" -> r.kind = ""
      [] OTHER -> FALSE

\* C17: a call with invalid input returns an error at once: it issues no
\* store call and leaves the store as it is.
C17_InvalidInputNoStoreCall ==
    [][\A p \in Procs :
         (res'[p] # res[p] /\ InvalidInput(res'[p].op, req'[p]))
         => /\ pc'[p] = "idle"
            /\ res'[p].err # NoErr /\ res'[p].out = NoOut
            /\ calls'[p] = <<>>
            /\ store' = store]_vars

C17_Witness ==
    /\ res["p1"].op = "apply"
    /\ req["p1"] = Doc(Str("Widget"), Str(TenantAPIVersion), TRUE, Str(""), Str("ns1"), 1)
    /\ res["p1"].err = Errorf("missing or invalid 'metadata.name' field")
    /\ calls["p1"] = <<>>
    /\ res["p2"].op = "delete" /\ req["p2"] = Coords("Widget", "", "default")
    /\ res["p2"].err = Errorf("name is required") /\ calls["p2"] = <<>>

\* The step is a call of caller p (it changed what p asked or got).
CallBy(p) == res'[p] # res[p] \/ req'[p] # req[p]

\* What the store holds once the step is taken, at the place a read asked for.
InstancesNow(kind, name, namespace) ==
    {o \in store' : /\ o.group = "openchoreo.dev" /\ o.kind = kind
                    /\ o.name = name /\ o.namespace = namespace}

InstancesOfKindNow(kind, namespace) ==
    {o \in store' : /\ o.group = "openchoreo.dev" /\ o.kind = kind
                    /\ (namespace = "" \/ o.namespace = namespace)}

TypesNow(crdName) == {c \in catalog' : c.Name = crdName}

\* C18: what GetResource, ListResources, ListCRDs and GetCRD return is what
\* the store and the catalog hold at the call, whatever was created, patched,
\* deleted, registered or replaced since an earlier call.
C18_ReadsAreLive ==
    [][\A p \in Procs :
         CallBy(p) =>
           LET r == res'[p]
               q == req'[p]
           IN
           /\ r.op = "get" =>
                 /\ r.err = NoErr <=> InstancesNow(q.kind, q.name, q.namespace) # {}
                 /\ r.err = NoErr =>
                       \E o \in InstancesNow(q.kind, q.name, q.namespace) :
                           r.out.spec = o.spec
           /\ (r.op = "list" /\ r.err = NoErr) =>
                 /\ {[name |-> r.out.items[i].name,
                      namespace |-> r.out.items[i].namespace] : i \in 1..Len(r.out.items)}
                      = {[name |-> o.name, namespace |-> o.namespace] :
                            o \in InstancesOfKindNow(q.kind, q.namespace)}
                 /\ Len(r.out.items) = Cardinality(InstancesOfKindNow(q.kind, q.namespace))
           /\ (r.op = "listcrds" /\ r.err = NoErr) =>
                 {[Plural |-> r.out.crds[i].Plural, Version |-> r.out.crds[i].Version] :
                     i \in 1..Len(r.out.crds)}
                   = {[Plural |-> c.Plural, Version |-> ReportedVersion(c.Versions)] :
                         c \in {c \in catalog' : c.Group = "openchoreo.dev"}}
           /\ r.op = "getcrd" =>
                 /\ r.err = NoErr <=>
                       \E c \in TypesNow(q.crdName) : c.Group = "openchoreo.dev"
                 /\ r.err = NoErr =>
                       \E c \in TypesNow(q.crdName) : \E i \in 1..Len(c.Versions) :
                          /\ r.out.Version = ReportedVersion(c.Versions)
                          /\ c.Versions[i].Name = r.out.Version
                          /\ r.out.Schema.v["type"] =
                                c.Versions[i].Schema.v.OpenAPIV3Schema.v.Type]_vars

\* The reader got the second payload after the writer's patch.
C18_Witness ==
    /\ res["p1"].op = "get" /\ res["p1"].err = NoErr
    /\ res["p1"].out.spec = 2
    /\ res["p2"].op = "apply" /\ res["p2"].err = NoErr
    /\ res["p2"].out.operation = "updated"
    /\ \E o \in store : o.kind = "Widget" /\ o.namespace = "default" /\ o.spec = 2

C18_WitnessCatalog ==
    /\ GotCRD("p1") /\ res["p1"].out.Version = "v1"
    /\ res["p1"].out.Schema = Ptr(FlatTagsSchema)
    /\ \E c \in catalog : c.Name = "widgets.openchoreo.dev" /\ c.Versions[2].Storage

\* C19: a data restore run with --dry-run (DRY_RUN=true) issues no command
\* that changes the cluster (no kubectl apply, create, scale, delete or exec)
\* in any restore step, whatever the backup directory holds.
C19_DryRunChangesNothing ==
    (sh.script = "restore-data" /\ sh.DRY_RUN) => sh.done = <<>>

\* C20: a Velero restore run with --dry-run that reports "Dry run complete -
\* no changes made" has changed nothing: it has created or updated no secret,
\* deleted no pod, copied no backup data to the k3d node and created no
\* Velero restore.
C20_DryRunMadeNoChanges ==
    ( /\ sh.script = "velero-restore"
      /\ sh.DRY_RUN
      /\ sh.said = "Dry run complete - no changes made" ) => sh.done = <<>>

\* The script has issued a deletion of failed pod volume restores, which is
\* how it makes Velero retry them.
RetriedPVRs == \E i \in 1..Len(sh.done) : sh.done[i] = DeleteFailedPVRs

FailureReports ==
    {"Restore failed or partially failed", "Restore did not complete successfully"}

\* C21: when volumes are restored and the restore is Failed or
\* PartiallyFailed with "no such file or directory" in its logs and failed
\* pod volume restores, the script has retried the failed pod volume restores
\* before it reports the restore as failed.
C21_RetriesBeforeReportingFailure ==
    ( /\ sh.script = "velero-restore"
      /\ sh.RESTORE_VOLUMES
      /\ sh.error \in FailureReports
      /\ sh.restore.phase \in {"Failed", "PartiallyFailed"}
      /\ sh.restore.errors /\ sh.restore.failed ) => RetriedPVRs

\* The wait loop's counters stay within their limits, and the loop is left.
WaitLoopBounded ==
    sh.script = "velero-restore" =>
        /\ sh.retry_count \in 0..max_retries
        /\ sh.elapsed \in 0..max_wait

WaitLoopTerminates == <>(sh.pc # "wait_for_restore")

\* C22: when the existence check of an ApplyResource call fails with an error
\* other than not-found, the call returns that error wrapped, issues neither
\* Create nor Patch, and leaves the store as it was.
C22_ExistenceCheckFailurePropagated ==
    [][\A p \in Procs :
         LET c == calls'[p] IN
         (/\ pc[p] = "idle" /\ CallBy(p) /\ IsDoc(req'[p])
          /\ Len(c) >= 1
          /\ c[1].verb = "get" /\ c[1].err \notin {"", "NotFound"})
         => /\ pc'[p] = "idle"
            /\ Len(c) = 1
            /\ res'[p] = Result("apply", Wrap("failed to apply resource", c[1].err), NoOut)
            /\ store' = store]_vars

C22_Witness ==
    /\ pc["p1"] = "idle"
    /\ res["p1"] = Result("apply", Wrap("failed to apply resource", "Unavailable"), NoOut)
    /\ Len(calls["p1"]) = 1 /\ calls["p1"][1].err = "Unavailable"
    /\ \E o \in store : o.group = "openchoreo.dev" /\ o.name = calls["p1"][1].name

\* C23: ApplyResource returns "created" only if its existence check answered
\* not-found and its Create succeeded, and "updated" only if its existence
\* check found the object and its Patch (an apply patch with forced ownership
\* under the field manager "openchoreo-mcp") succeeded; when the existence
\* check answers not-found, an error of the call is the error of the Create.
C23_ApplyBranches ==
    \A p \in Procs :
        LET c == calls[p] IN
        (pc[p] = "idle" /\ res[p].op = "apply") =>
            /\ res[p].err = NoErr =>
                  /\ Len(c) = 2 /\ c[1].verb = "get" /\ c[2].err = ""
                  /\ res[p].out.operation \in {"created", "updated"}
                  /\ res[p].out.operation = "created" =>
                        (c[1].err = "NotFound" /\ c[2].verb = "create")
                  /\ res[p].out.operation = "updated" =>
                        /\ c[1].err = "" /\ c[2].verb = "patch"
                        /\ c[2].options = [apply |-> TRUE, force |-> TRUE,
                                          fieldOwner |-> "openchoreo-mcp"]
            /\ (res[p].err # NoErr /\ Len(c) >= 1 /\ c[1].err = "NotFound") =>
                  /\ Len(c) = 2 /\ c[2].verb = "create"
                  /\ res[p].err = Wrap("failed to apply resource", c[2].err)

C23_Witness ==
    /\ pc["p1"] = "idle" /\ AppliedOK("p1") /\ res["p1"].out.operation = "created"
    /\ pc["p2"] = "idle" /\ AppliedOK("p2") /\ res["p2"].out.operation = "updated"

C23_WitnessCreateFailed ==
    /\ pc["p1"] = "idle" /\ res["p1"].op = "apply"
    /\ Len(calls["p1"]) = 2 /\ calls["p1"][1].err = "NotFound"
    /\ calls["p1"][2].err = "AlreadyExists"

\* C24: a DeleteResource call with kind and name given issues exactly one
\* store call, the Delete at the coordinates as given, and no Get; when the
\* store answers an error, not-found included, the call returns it wrapped and
\* no result; when the Delete succeeds the result carries the kind, name and
\* namespace as given and a confirmation message, and a GetResource on the
\* same coordinates that follows it (the store answering) fails with
\* not-found.
C24_DeleteFireAndForget ==
    [][\A p \in Procs :
         LET c == calls'[p]  r == req'[p] IN
         /\ (pc'[p] = "idle" /\ res'[p].op = "delete" /\ r.kind # "" /\ r.name # "") =>
               /\ Len(c) = 1
               /\ c[1] = Call("delete", [Group |-> "openchoreo.dev", Version |-> "v1alpha1",
                                         Kind |-> r.kind], r.namespace, r.name, c[1].err)
               /\ c[1].err # "" =>
                     res'[p] = Result("delete", Wrap("failed to delete resource", c[1].err), NoOut)
               /\ c[1].err = "" =>
                     /\ res'[p].err = NoErr
                     /\ res'[p].out.kind = r.kind /\ res'[p].out.name = r.name
                     /\ res'[p].out.namespace = r.namespace
                     /\ res'[p].out.message =
                           <<"Resource ", r.kind, "/", r.name, " deleted successfully">>
         /\ (/\ res[p].op = "delete" /\ res[p].err = NoErr
             /\ res'[p].op = "get" /\ req'[p] = req[p]
             /\ res'[p].err.cause # "Unavailable") =>
               res'[p] = Result("get", Wrap("failed to get resource", "NotFound"), NoOut)]_vars

\* A delete of an object that exists has succeeded with an empty namespace
\* given (a cluster-scoped kind).
C24_Witness ==
    /\ res["p1"].op = "delete" /\ res["p1"].err = NoErr
    /\ req["p1"].namespace = "" /\ res["p1"].out.namespace = ""
    /\ Len(calls["p1"]) = 1

C24_WitnessNotFound ==
    /\ res["p1"].op = "delete"
    /\ res["p1"].err = Wrap("failed to delete resource", "NotFound")

C24_WitnessGetAfterDelete ==
    /\ res["p1"].op = "get"
    /\ res["p1"].err = Wrap("failed to get resource", "NotFound")
    /\ req["p1"].kind = "Organization"


\* C25: GetResource, DeleteResource and ListResources address group
\* "openchoreo.dev", version "v1alpha1" for every kind, and the results of
\* Delete and List report apiVersion "openchoreo.dev/v1alpha1", whatever the
\* version of the tenant group under which an object was applied.
ByCoordinates == {"get", "delete", "list"}

C25_FixedVersion ==
    \A p \in Procs :
        res[p].op \in ByCoordinates =>
            /\ \A i \in 1..Len(calls[p]) :
                  /\ calls[p][i].group = "openchoreo.dev"
                  /\ calls[p][i].version = "v1alpha1"
                  /\ calls[p][i].kind = req[p].kind
            /\ (res[p].op \in {"delete", "list"} /\ res[p].err = NoErr) =>
                  res[p].out.apiVersion = <<"openchoreo.dev", "/", "v1alpha1">>

AppliedUnderV1(p) ==
    /\ AppliedOK(p)
    /\ res[p].out.apiVersion = <<openchoreoGroup, "/", "v1">>

\* An object applied under openchoreo.dev/v1 is listed.
C25_Witness ==
    /\ AppliedUnderV1("p1")
    /\ res["p2"].op = "list" /\ res["p2"].err = NoErr
    /\ Len(res["p2"].out.items) = 1
    /\ Len(calls["p2"]) = 1

\* An object applied under openchoreo.dev/v1 is deleted.
C25_WitnessDelete ==
    /\ AppliedUnderV1("p1")
    /\ res["p2"].op = "delete" /\ res["p2"].err = NoErr
    /\ store = {ForeignObject}


\* C26: when listTypes and getTypeDetail read the same catalog, the kind,
\* group, version, namespaced, plural and singular of the detail of a
\* tenant-group type are those of a summary in the list.
TypeSummary(details) ==
    [Kind |-> details.Kind, Group |-> details.Group, Version |-> details.Version,
     Namespaced |-> details.Namespaced, Plural |-> details.Plural,
     Singular |-> details.Singular]

ListedAndDetailed ==
    /\ res["p1"].op = "listcrds" /\ res["p1"].err = NoErr
    /\ res["p2"].op = "getcrd" /\ res["p2"].err = NoErr
    /\ req["p1"].catalog = req["p2"].catalog

C26_ListAndDetailAgree ==
    ListedAndDetailed =>
        /\ \E i \in 1..Len(res["p1"].out.crds) :
              res["p1"].out.crds[i] = TypeSummary(res["p2"].out)
        /\ Len(res["p1"].out.crds) =
              Cardinality({crd \in req["p1"].catalog : crd.Group = "openchoreo.dev"})

\* The detail of a type whose flagged version is not the first declared, read
\* from a catalog that also holds another type of the same kind.
C26_Witness ==
    /\ ListedAndDetailed
    /\ res["p2"].out.Name = "widgets.openchoreo.dev"
    /\ res["p2"].out.Version = "v1"
    /\ Len(res["p1"].out.crds) = 2

\* The detail of a type that declares no version.
C26_WitnessNoVersion ==
    /\ ListedAndDetailed
    /\ res["p2"].out.Name = "gadgets.openchoreo.dev"
    /\ res["p2"].out.Version = ""


\* C27: a step of an apply or delete call changes no store object at
\* coordinates other than the ones the call addresses, and what the store
\* answers to the call, and so what the call returns, is decided by whether
\* an object exists at the call's own coordinates (and by the store being
\* reachable).
At(call, o) ==
    /\ o.group = call.group /\ o.kind = call.kind
    /\ o.namespace = call.namespace /\ o.name = call.name

LastCall(p) == calls'[p][Len(calls'[p])]

OthersIdle(p) ==
    \A q \in Procs \ {p} :
        /\ pc'[q] = pc[q] /\ cur'[q] = cur[q] /\ req'[q] = req[q]
        /\ res'[q] = res[q] /\ calls'[q] = calls[q]

StoreFaults == {"Unavailable", "Conflict"}

\* The answers of a reachable store to a call, given whether the object the
\* call addresses exists.
Answers(verb, exists) ==
    CASE verb = "get" -> IF exists THEN {""} ELSE {"NotFound"}
      [] verb = "create" -> IF exists THEN {"AlreadyExists"} ELSE {""}
      [] verb = "patch" -> IF exists THEN {""} ELSE {"", "NotFound"}
      [] verb = "delete" -> IF exists THEN {""} ELSE {"NotFound"}

C27_Frame ==
    \A o \in (store \ store') \cup (store' \ store) :
        \E p \in Procs :
            /\ OthersIdle(p)
            /\ Len(calls'[p]) > 0
            /\ At(LastCall(p), o)
            /\ LastCall(p).verb \in {"create", "patch", "delete"}

C27_OwnCoordinatesDecide ==
    \A p \in Procs :
        (calls'[p] # calls[p] /\ Len(calls'[p]) > 0) =>
            LET call == LastCall(p)
                own == {o \in store : At(call, o)}
            IN  /\ call.err \in Answers(call.verb, own # {}) \cup StoreFaults
                /\ pc'[p] = "idle" =>
                      /\ (res'[p].err = NoErr) <=> (call.err = "")
                      /\ (res'[p].op = "apply" /\ call.err = "") =>
                            res'[p].out.operation =
                               (IF call.verb = "create" THEN "created" ELSE "updated")

C27_NoInterference == [][C27_Frame /\ C27_OwnCoordinatesDecide]_vars

\* One caller has deleted default/w1 while the object the other applied at
\* ns1/w1 stays in the store.
C27_Witness ==
    /\ res["p1"].op = "delete" /\ res["p1"].err = NoErr
    /\ req["p1"].namespace = "default"
    /\ AppliedOK("p2") /\ res["p2"].out.namespace = "ns1"
    /\ StoredAt(store, res["p2"].out) # {}
    /\ {o \in store : o.group = "openchoreo.dev" /\ o.namespace = "default"} = {}

\* One caller is between its existence check and its write at default/w1
\* while the other creates ns1/w1.
C27_WitnessInterleaved ==
    /\ pc["p1"] = "create" /\ cur["p1"].obj.namespace = "default"
    /\ AppliedOK("p2") /\ res["p2"].out.namespace = "ns1"
    /\ res["p2"].out.operation = "created"


\* C28: a successful ListResources returns, in the order the store returned
\* them, one summary for each instance of the kind the store holds in the
\* namespace asked for, or in every namespace when none is asked for, and no
\* other; a summary has the instance's name, namespace and labels, its
\* creation timestamp unless that is the zero time, and its status if it has
\* one.
Summarizes(summary, o) ==
    /\ summary.name = o.name
    /\ summary.namespace = o.namespace
    /\ summary.labels = o.labels
    /\ summary.createdAt =
          (IF o.creationTimestamp = [date |-> <<1, 1, 1>>, clock |-> <<0, 0, 0>>]
           THEN <<>>
           ELSE <<o.creationTimestamp.date[1], "-", o.creationTimestamp.date[2], "-",
                  o.creationTimestamp.date[3], "T", o.creationTimestamp.clock[1], ":",
                  o.creationTimestamp.clock[2], ":", o.creationTimestamp.clock[3], "Z">>)
    /\ summary.status =
          (IF o.status.t = "object" THEN [ptr |-> "set", v |-> o.status.m]
           ELSE [ptr |-> "nil"])

InstancesToList(q) ==
    {o \in store : /\ o.group = "openchoreo.dev" /\ o.kind = q.kind
                   /\ (q.namespace = "" \/ o.namespace = q.namespace)}

ListedOK(p) == res[p].op = "list" /\ res[p].err = NoErr

C28_ListSoundAndComplete ==
    \A p \in Procs :
        ListedOK(p) =>
            LET items == res[p].out.items
                returned == calls[p][1].returned
            IN  /\ Len(items) = Cardinality(InstancesToList(req[p]))
                /\ \A o \in InstancesToList(req[p]) :
                      \E i \in 1..Len(items) : Summarizes(items[i], o)
                /\ \A i \in 1..Len(items) :
                      \E o \in InstancesToList(req[p]) : Summarizes(items[i], o)
                /\ Len(returned) = Len(items)
                /\ \A i \in 1..Len(items) : Summarizes(items[i], returned[i])

\* The list of one namespace of a store that holds instances in two: an
\* instance with a status and one with the zero timestamp are summarized,
\* the instance of the other namespace is not.
C28_Witness ==
    /\ ListedOK("p1") /\ req["p1"].namespace = "default"
    /\ Cardinality({o \in store : o.group = "openchoreo.dev" /\ o.kind = "Widget"}) = 3
    /\ Len(res["p1"].out.items) = 2
    /\ res["p1"].out.items[1].createdAt = <<>>
    /\ res["p1"].out.items[2].status # [ptr |-> "nil"]

\* The list of every namespace.
C28_WitnessAllNamespaces ==
    /\ ListedOK("p1") /\ req["p1"].namespace = ""
    /\ Len(res["p1"].out.items) = 3
    /\ {res["p1"].out.items[i].namespace : i \in 1..3} = {"default", "ns1"}


\* C29: with callers applying concurrently and nobody deleting, a call
\* returns "created" only for an object that did not exist at its
\* coordinates, the object stays once created, so at most one call returns
\* "created" for any coordinates, and the store never holds two objects at
\* the same coordinates.
SameCoordinates(a, b) ==
    /\ a.group = b.group /\ a.kind = b.kind
    /\ a.namespace = b.namespace /\ a.name = b.name

ReturnsCreated(p) ==
    /\ pc[p] = "create" /\ pc'[p] = "idle"
    /\ res'[p].op = "apply" /\ res'[p].err = NoErr
    /\ res'[p].out.operation = "created"

C29_SingleCreator ==
    [][/\ \A p \in Procs :
             ReturnsCreated(p) =>
                /\ StoredAt(store, res'[p].out) = {}
                /\ Cardinality(StoredAt(store', res'[p].out)) = 1
       /\ \A o \in store : \E n \in store' : SameCoordinates(o, n)
       /\ \A a, b \in store' : SameCoordinates(a, b) => a = b]_vars

\* Both callers found no object at default/w1; one created it, the other's
\* Create was refused.
C29_Witness ==
    /\ AppliedOK("p1") /\ res["p1"].out.operation = "created"
    /\ res["p2"].op = "apply" /\ res["p2"].err.cause = "AlreadyExists"
    /\ req["p1"] = req["p2"]
    /\ Cardinality(StoredAt(store, res["p1"].out)) = 1


\* C30: when ApplyResource returns "created" or "updated", the store holds
\* the object at the coordinates of the result once the call's Create or
\* Patch has answered, whatever other callers applied or deleted meanwhile;
\* a call whose object was deleted between its existence check and its Patch
\* returns an error or has written the object anew.
ReturnsApplied(p) ==
    /\ pc[p] \in {"create", "patch"} /\ pc'[p] = "idle"
    /\ res'[p].op = "apply" /\ res'[p].err = NoErr

WroteLast(p) == calls'[p][Len(calls'[p])].verb \in {"create", "patch"}

C30_AppliedObjectExists ==
    [][\A p \in Procs :
          ReturnsApplied(p) =>
             /\ res'[p].out.operation \in {"created", "updated"}
             /\ WroteLast(p) /\ calls'[p][Len(calls'[p])].err = ""
             /\ \E o \in StoredAt(store', res'[p].out) :
                   o.spec = req[p].spec]_vars

\* The other caller's delete came after this caller's existence check: the
\* Patch found no object and the call returned the error.
C30_Witness ==
    /\ res["p1"].op = "apply" /\ res["p1"].err.cause = "NotFound"
    /\ Len(calls["p1"]) = 2
    /\ calls["p1"][1].verb = "get" /\ calls["p1"][1].err = ""
    /\ calls["p1"][2].verb = "patch"
    /\ res["p2"].op = "delete" /\ res["p2"].err = NoErr

\* A call returned "updated" beside a delete of the same coordinates, and the
\* store holds the object.
C30_WitnessUpdated ==
    /\ AppliedOK("p1") /\ res["p1"].out.operation = "updated"
    /\ res["p2"].op = "delete" /\ res["p2"].err = NoErr
    /\ req["p2"].namespace = res["p1"].out.namespace
    /\ StoredAt(store, res["p1"].out) # {}

====
